---- MODULE Spec2Model ----
(***************************************************************************)
(* Model of the Azure infrastructure report generator: the orchestrator    *)
(* (main.ts), the five resource fetchers (data-fetchers/azure), the        *)
(* resource naming resolution (config.ts), the environment inference of    *)
(* the alert fetcher and the specification table layout of the document    *)
(* generator.                                                              *)
(*                                                                         *)
(* JavaScript strings that the code inspects character by character        *)
(* (includes, endsWith, replace, toLowerCase) are sequences of             *)
(* one-character strings; strings the code only copies or compares as a    *)
(* whole are TLA+ strings.                                                 *)
(***************************************************************************)
EXTENDS Integers, Sequences, FiniteSets, TLC

VARIABLES
    \* --- environment inference (04-alert.ts) ---
    resourceName,       \* the name handed to detectEnvironment
    detectedEnv,        \* its result, "none" before the call
    envDisplayName,     \* getEnvironmentDisplayName of the result
    \* --- resource naming (config.ts) ---
    baseResourceName,   \* CONFIG.baseResourceName
    processEnv,         \* process.env restricted to the override variables
    resources,          \* the object returned by getResourceNames
    namePc,             \* "call" before getResourceNames has run, "done" after
    resourceGroup,      \* per resource type resolved so far: what getResourceGroup returned
    \* --- specification table (document-generator.ts) ---
    data,               \* the SpecificationData handed to generateSpecificationTable
    table,              \* the rendered table
    tablePc,            \* "call" before generateSpecificationTable has run, "done" after
    \* --- one fetcher call (data-fetchers/azure) ---
    subscriptionId,     \* TRUE when process.env.azure_subscription_id is set
    fetcher,            \* which fetcher runs
    inputs,             \* the arguments of the call
    fetchState,         \* "start", "running", "resolved" or "rejected"
    step,               \* the position in Calls(fetcher) of the next API call
    results,            \* the outcome of each API call so far, in call order
    warnings,           \* the API calls whose failure console.warn reported
    thrown,             \* the error the call rejected with, "" when none
    outputFile,         \* output/<fetcher>-data.json
    previousFile,       \* that file as the earlier run left it
    \* --- one run of main (main.ts) ---
    mainPc,             \* "start", "awaiting", "completed" or "exited"
    fetchers,           \* per fetcher: its promise, its next call, whether a call threw
    files,              \* per fetcher: "absent", "previous" or "new" output file
    docInvoked,         \* TRUE once generateDocument has been called
    exitCode,           \* the argument of process.exit, 0 after a normal return, -1 before
    \* --- one run of generateDocument (document-generator.ts) ---
    loader,             \* which loadDataFiles runs: "document-generator" or "data-loader"
    useAutoDiscovery,   \* CONFIG.useAutoDiscovery
    outputDirExists,    \* TRUE when ./output exists
    outputDir,          \* the files of ./output in the order readdirSync lists them
    documentSections,   \* CONFIG.documentSections
    loadedData,         \* what loadDataFiles returned
    docWarnings,        \* the console.warn calls of the run, in order
    docPc,              \* "call", "returned", "packing", "written" or "unhandled rejection"
    artifact,           \* the file CONFIG.outputFilename
    \* --- firewall rules of the SQL server (database/00-connect-db.ts) ---
    now,                \* Date.now()
    serverRules,        \* the firewall rules of the server
    ensure,             \* per run of ensureFirewallAccess: its position and locals
    cleanup,            \* the run of cleanupOldFirewallRules: its position and locals
    \* --- Redis SKU details (03-redis.ts) ---
    sku,                \* redisCache.sku: name, family and capacity, each optional
    skuDetails,         \* what getSkuDetails returned
    skuPc,              \* "call" before getSkuDetails has run, "done" after
    \* --- storage SLA (02-storage.ts) ---
    storage,            \* account.sku?.name and account.accessTier, each optional
    slaValue,           \* what getStorageSLA returned
    slaPc,              \* "call" before getStorageSLA has run, "done" after
    \* --- the dbManager singleton (database/00-connect-db.ts) and the
    \* operations of database/01-query-default-config.ts ---
    pool,               \* this.pool: 0 is null, otherwise a pool object
    poolObjects,        \* the pool objects sql.connect has handed out: open or closed
    operation           \* per call of an operation: its function, position and locals

envVars   == <<resourceName, detectedEnv, envDisplayName>>
nameVars  == <<baseResourceName, processEnv, resources, namePc, resourceGroup>>
tableVars == <<data, table, tablePc>>
fetchVars == <<fetcher, inputs, fetchState, step, results, warnings,
               thrown, outputFile, previousFile>>
mainVars  == <<mainPc, fetchers, files, docInvoked, exitCode>>
docVars   == <<loader, useAutoDiscovery, outputDirExists, outputDir, documentSections,
               loadedData, docWarnings, docPc, artifact>>
firewallVars == <<now, serverRules, ensure, cleanup>>
skuVars   == <<sku, skuDetails, skuPc, storage, slaValue, slaPc>>
dbVars    == <<pool, poolObjects, operation>>

(***************************************************************************)
(* Strings                                                                 *)
(***************************************************************************)

\* String.prototype.toLowerCase on the letters the inputs use
LowerOf ==
    [c \in {"P", "R", "O", "D", "T", "E", "S", "C", "L"} |->
        CASE c = "P" -> "p" [] c = "R" -> "r" [] c = "O" -> "o" [] c = "D" -> "d"
          [] c = "T" -> "t" [] c = "E" -> "e" [] c = "S" -> "s" [] c = "C" -> "c"
          [] c = "L" -> "l"]

toLowerCase(s) ==
    [i \in 1..Len(s) |-> IF s[i] \in DOMAIN LowerOf THEN LowerOf[s[i]] ELSE s[i]]

\* String.prototype.includes
includes(s, sub) ==
    \E i \in 1..(Len(s) - Len(sub) + 1) : SubSeq(s, i, i + Len(sub) - 1) = sub

\* String.prototype.endsWith
endsWith(s, sub) ==
    /\ Len(sub) <= Len(s)
    /\ SubSeq(s, Len(s) - Len(sub) + 1, Len(s)) = sub

RECURSIVE Concat(_)
\* the concatenation of a sequence of strings
Concat(parts) ==
    IF parts = <<>> THEN <<>> ELSE Head(parts) \o Concat(Tail(parts))

\* the sequences over S of length at most n
SeqUpTo(S, n) == UNION {[1..k -> S] : k \in 0..n}

s_prod   == <<"p","r","o","d">>
s_dprodd == <<"-","p","r","o","d","-">>
s_dprod  == <<"-","p","r","o","d">>
s_test   == <<"t","e","s","t">>
s_dtestd == <<"-","t","e","s","t","-">>
s_dtest  == <<"-","t","e","s","t">>
s_production == <<"p","r","o","d","u","c","t","i","o","n">>
s_legacy == <<"-","l","e","g","a","c","y">>
s_batchline_orbia == <<"b","a","t","c","h","l","i","n","e","-","o","r","b","i","a">>

(***************************************************************************)
(* Environment inference: detectEnvironment, getEnvironmentDisplayName     *)
(***************************************************************************)

\* a plausible slip: the test branch placed before the prod branch
detectEnvironmentTestFirst(name) ==
    LET normalizedName == toLowerCase(name) IN
    IF includes(normalizedName, s_test) THEN "test"
    ELSE IF includes(normalizedName, s_prod) THEN "prod"
    ELSE "unknown"

detectEnvironment(name) ==
    LET normalizedName == toLowerCase(name) IN
    IF \/ includes(normalizedName, s_dprodd)
       \/ endsWith(normalizedName, s_dprod)
       \/ includes(normalizedName, s_prod)
    THEN "prod"
    ELSE IF \/ includes(normalizedName, s_dtestd)
            \/ endsWith(normalizedName, s_dtest)
            \/ includes(normalizedName, s_test)
    THEN "test"
    ELSE "unknown"

\* env.toLowerCase() is the identity on the three tags detectEnvironment returns
getEnvironmentDisplayName(env) ==
    CASE env = "prod" -> "Production"
      [] env = "test" -> "Test"
      [] OTHER -> "Unknown"

\* the name fragments resource and alert names are put together from
MaxNameTokens == 3

NameTokens ==
    { s_batchline_orbia, s_dtest, s_dprod, s_legacy,
      <<"P","R","O","D">>, <<"T","e","s","t">>,
      <<"p","r","o">>, <<"d">>, <<"t","e">>, <<"s","t">> }

ResourceNameInputs ==
    { Concat(parts) : parts \in SeqUpTo(NameTokens, MaxNameTokens) }

EnvIdle ==
    /\ resourceName = <<>>
    /\ detectedEnv = "idle"
    /\ envDisplayName = "idle"

EnvInit ==
    /\ resourceName \in ResourceNameInputs
    /\ detectedEnv = "none"
    /\ envDisplayName = "none"

\* getEnvironmentFromAlertName: detectEnvironment, then the display name
GetEnvironmentFromName ==
    /\ detectedEnv = "none"
    /\ detectedEnv' = detectEnvironment(resourceName)
    /\ envDisplayName' = getEnvironmentDisplayName(detectEnvironment(resourceName))
    /\ UNCHANGED resourceName


(***************************************************************************)
(* Resource naming resolution: getResourceNames                            *)
(***************************************************************************)

\* a process.env variable that is not set
Undefined == <<"undefined">>

\* JavaScript truthiness of an optional string: undefined and '' are falsy
Truthy(v) == v # Undefined /\ v # <<>>

\* a plausible slip: a ?? b, which keeps the empty string
OrNullish(a, b) == IF a # Undefined THEN a ELSE b

\* a || b
Or(a, b) == IF Truthy(a) THEN a ELSE b

NameOverrideKeys ==
    { "resource_group_name", "web_app_name", "app_service_plan_name",
      "sql_server_name", "sql_database_name", "redis_cache_name",
      "storage_account_name" }

ResourceGroupOverrideKeys ==
    { "web_app_resource_group", "app_service_plan_resource_group",
      "sql_server_resource_group", "redis_cache_resource_group",
      "storage_account_resource_group" }

EnvKeys == NameOverrideKeys \cup ResourceGroupOverrideKeys

\* a plausible slip: replace('-', '') without the g flag removes one hyphen only
RECURSIVE removeFirstHyphen(_)
removeFirstHyphen(s) ==
    IF s = <<>> THEN <<>>
    ELSE IF Head(s) = "-" THEN Tail(s)
    ELSE <<Head(s)>> \o removeFirstHyphen(Tail(s))

RECURSIVE removeHyphens(_)
\* s.replace(/-/g, '')
removeHyphens(s) ==
    IF s = <<>> THEN <<>>
    ELSE IF Head(s) = "-" THEN removeHyphens(Tail(s))
    ELSE <<Head(s)>> \o removeHyphens(Tail(s))

getResourceNames ==
    [ resourceGroupName |-> Or(processEnv["resource_group_name"], baseResourceName),
      webAppName |-> Or(processEnv["web_app_name"], baseResourceName \o s_legacy),
      webAppResourceGroup |-> processEnv["web_app_resource_group"],
      legacyPlanName |-> Or(processEnv["app_service_plan_name"], baseResourceName \o s_legacy),
      appServicePlanResourceGroup |-> processEnv["app_service_plan_resource_group"],
      sqlServerName |-> Or(processEnv["sql_server_name"], baseResourceName),
      sqlServerResourceGroup |-> processEnv["sql_server_resource_group"],
      sqlDatabaseName |-> Or(processEnv["sql_database_name"], baseResourceName \o s_legacy),
      redisCacheName |-> Or(processEnv["redis_cache_name"], baseResourceName),
      redisCacheResourceGroup |-> processEnv["redis_cache_resource_group"],
      storageAccountName |->
          Or(processEnv["storage_account_name"], toLowerCase(removeHyphens(baseResourceName))),
      storageAccountResourceGroup |-> processEnv["storage_account_resource_group"] ]

\* the product, site and environment identifiers CONFIG joins with hyphens
\* and lowercases into baseResourceName
ProductNames == { <<>>, <<"b","a","t","c","h","l","i","n","e">> }
SiteNames    == { <<>>, <<"o","r","b","i","a">>, <<"m","y","-","s","i","t","e">> }
EnvironmentNames == { <<>>, s_test, s_prod }

BaseResourceNames ==
    { toLowerCase(p \o <<"-">> \o s \o <<"-">> \o e) :
        p \in ProductNames, s \in SiteNames, e \in EnvironmentNames }

\* the values an override variable is set to: the empty string, or a name
\* with capitals and hyphens
OverrideValues == { <<>>, <<"M","y","-","R","-","x">> }

\* how many override variables are set at once
MaxOverrides == 2

ProcessEnvs ==
    { [k \in EnvKeys |-> IF k \in DOMAIN f THEN f[k] ELSE Undefined] :
        f \in UNION { [S -> OverrideValues] :
                        S \in { T \in SUBSET EnvKeys : Cardinality(T) <= MaxOverrides } } }

NoResources == [k \in {} |-> <<>>]

NameIdle ==
    /\ baseResourceName = <<>>
    /\ processEnv = [k \in EnvKeys |-> Undefined]
    /\ resources = NoResources
    /\ namePc = "idle"
    /\ resourceGroup = NoResources

NameInit ==
    /\ baseResourceName \in BaseResourceNames
    /\ processEnv \in ProcessEnvs
    /\ resources = NoResources
    /\ namePc = "call"
    /\ resourceGroup = NoResources

GetResourceNames ==
    /\ namePc = "call"
    /\ resources' = getResourceNames
    /\ namePc' = "done"
    /\ UNCHANGED <<baseResourceName, processEnv, resourceGroup>>

ResourceTypes == { "webapp", "plan", "sql", "redis", "storage" }

\* a plausible slip: the plan falls back to the web app's resource group
getResourceGroupPlanWithWebApp(resourceType) ==
    LET config == getResourceNames IN
    CASE resourceType = "webapp" -> Or(config.webAppResourceGroup, config.resourceGroupName)
      [] resourceType = "plan" ->
           Or(config.appServicePlanResourceGroup,
              Or(config.webAppResourceGroup, config.resourceGroupName))
      [] resourceType = "sql" -> Or(config.sqlServerResourceGroup, config.resourceGroupName)
      [] resourceType = "redis" -> Or(config.redisCacheResourceGroup, config.resourceGroupName)
      [] resourceType = "storage" ->
           Or(config.storageAccountResourceGroup, config.resourceGroupName)
      [] OTHER -> config.resourceGroupName

getResourceGroup(resourceType) ==
    LET config == getResourceNames IN
    CASE resourceType = "webapp" -> Or(config.webAppResourceGroup, config.resourceGroupName)
      [] resourceType = "plan" ->
           Or(config.appServicePlanResourceGroup, config.resourceGroupName)
      [] resourceType = "sql" -> Or(config.sqlServerResourceGroup, config.resourceGroupName)
      [] resourceType = "redis" -> Or(config.redisCacheResourceGroup, config.resourceGroupName)
      [] resourceType = "storage" ->
           Or(config.storageAccountResourceGroup, config.resourceGroupName)
      [] OTHER -> config.resourceGroupName

\* the order in which main resolves the resource groups
ResolutionOrder == << "webapp", "plan", "sql", "redis", "storage" >>

\* main resolves the resource group of each resource type, in that order,
\* once it holds the resource names
GetResourceGroup(resourceType) ==
    /\ namePc = "done"
    /\ Cardinality(DOMAIN resourceGroup) < Len(ResolutionOrder)
    /\ resourceType = ResolutionOrder[Cardinality(DOMAIN resourceGroup) + 1]
    /\ resourceGroup' =
          [t \in DOMAIN resourceGroup \cup {resourceType} |->
              IF t = resourceType THEN getResourceGroup(resourceType) ELSE resourceGroup[t]]
    /\ UNCHANGED <<baseResourceName, processEnv, resources, namePc>>

(***************************************************************************)
(* Specification table: groupBySection, generateSpecificationTable         *)
(***************************************************************************)

\* the section names of the records; "0" and "1" are array-index keys and
\* "constructor" is a member every object inherits from Object.prototype
Sections == { "A", "B", "0", "1", "constructor" }

\* the longest record list handed to the table generator
MaxRows == 4

\* keys that Object.entries lists first, in ascending numeric order
IsArrayIndex(key) == key \in { "0", "1" }

IndexValue(key) == IF key = "0" THEN 0 ELSE 1

\* keys for which acc[key] is a truthy inherited member of the empty object
IsInherited(key) == key = "constructor"

\* the accumulator {} of the reduce: own keys in insertion order, and values
EmptyObject == [keys |-> <<>>, vals |-> [k \in {} |-> <<>>], threw |-> FALSE]

HasOwn(acc, key) == \E i \in 1..Len(acc.keys) : acc.keys[i] = key

\* a plausible slip: acc[item.section] = [item] in place of push
reduceStepOverwrite(acc, item) ==
    IF acc.threw THEN acc
    ELSE IF IsInherited(item.section) THEN [acc EXCEPT !.threw = TRUE]
    ELSE IF ~HasOwn(acc, item.section)
         THEN [acc EXCEPT !.keys = Append(@, item.section),
                          !.vals = (item.section :> <<item>>) @@ @]
         ELSE [acc EXCEPT !.vals[item.section] = <<item>>]

\* the callback of data.reduce in groupBySection; acc[item.section].push of
\* an inherited member is a TypeError
reduceStep(acc, item) ==
    IF acc.threw THEN acc
    ELSE IF IsInherited(item.section) THEN [acc EXCEPT !.threw = TRUE]
    ELSE IF ~HasOwn(acc, item.section)
         THEN [acc EXCEPT !.keys = Append(@, item.section),
                          !.vals = (item.section :> <<item>>) @@ @]
         ELSE [acc EXCEPT !.vals[item.section] = Append(@, item)]

RECURSIVE reduce(_, _)
reduce(acc, items) ==
    IF items = <<>> THEN acc ELSE reduce(reduceStep(acc, Head(items)), Tail(items))

groupBySection(items) == reduce(EmptyObject, items)

RECURSIVE SortedIndexKeys(_)
\* the array-index keys of a set, ascending
SortedIndexKeys(S) ==
    IF S = {} THEN <<>>
    ELSE LET k == CHOOSE x \in S : \A y \in S : IndexValue(x) <= IndexValue(y)
         IN <<k>> \o SortedIndexKeys(S \ {k})

\* Object.entries(obj): array-index keys ascending, then the other keys in
\* insertion order
ObjectEntries(obj) ==
    LET indexKeys == { obj.keys[i] : i \in { j \in 1..Len(obj.keys) : IsArrayIndex(obj.keys[j]) } }
        order == SortedIndexKeys(indexKeys)
                   \o SelectSeq(obj.keys, LAMBDA k : ~IsArrayIndex(k))
    IN [i \in 1..Len(order) |-> <<order[i], obj.vals[order[i]]>>]

\* the rows that items.forEach pushes for one entry: the first carries the
\* section cell with rowSpan = items.length
SectionRows(sectionName, items) ==
    [index \in 1..Len(items) |->
        [ kind |-> "data",
          hasSectionCell |-> (index = 1),
          sectionName |-> IF index = 1 THEN sectionName ELSE "",
          rowSpan |-> IF index = 1 THEN Len(items) ELSE 0,
          title |-> items[index].title ]]

RECURSIVE EntryRows(_)
EntryRows(entries) ==
    IF entries = <<>> THEN <<>>
    ELSE SectionRows(Head(entries)[1], Head(entries)[2]) \o EntryRows(Tail(entries))

PlainRow(kind) ==
    [kind |-> kind, hasSectionCell |-> FALSE, sectionName |-> "", rowSpan |-> 0, title |-> 0]

generateSpecificationTable(items) ==
    IF Len(items) = 0
    THEN [threw |-> FALSE, rows |-> <<PlainRow("placeholder")>>]
    ELSE LET groupedData == groupBySection(items) IN
         IF groupedData.threw
         THEN [threw |-> TRUE, rows |-> <<>>]
         ELSE [threw |-> FALSE,
               rows |-> <<PlainRow("header")>> \o EntryRows(ObjectEntries(groupedData))]

\* the record lists: record i has title i; its value cell follows its title
SpecificationDatas ==
    { [i \in 1..Len(secs) |-> [section |-> secs[i], title |-> i]] :
        secs \in SeqUpTo(Sections, MaxRows) }

NoTable == [threw |-> FALSE, rows |-> <<>>]

TableIdle ==
    /\ data = <<>>
    /\ table = NoTable
    /\ tablePc = "idle"

TableInit ==
    /\ data \in SpecificationDatas
    /\ table = NoTable
    /\ tablePc = "call"

GenerateSpecificationTable ==
    /\ tablePc = "call"
    /\ table' = generateSpecificationTable(data)
    /\ tablePc' = "done"
    /\ UNCHANGED data

(***************************************************************************)
(* The fetchers: fetchAndSaveWebServerDetails, fetchAndSaveSqlDatabase-    *)
(* Details, fetchAndSaveRedisDetails, fetchAndSaveStorageDetails and       *)
(* fetchAndSaveAlertDetails.  Each is a sequence of awaited API calls      *)
(* inside one try block, followed by the assembly of the records and one   *)
(* writeFileSync.  A display string built from a template is the sequence  *)
(* of its pieces.                                                          *)
(***************************************************************************)

Kinds == { "web-server", "database", "redis", "storage", "alert" }

Call(name, primary) == [name |-> name, primary |-> primary]

\* the awaited API calls of each fetcher in program order; a call is primary
\* when no try/catch of its own surrounds it, so that its failure reaches the
\* catch block of the fetcher
Calls(k) ==
    CASE k = "web-server" ->
           << Call("appServicePlans.get", TRUE),
              Call("webApps.get", TRUE),
              Call("webApps.getConfiguration", TRUE),
              Call("webApps.getBackupConfiguration", FALSE),
              Call("webApps.getDiagnosticLogsConfiguration", FALSE),
              Call("autoscaleSettings.listByResourceGroup(plan)", FALSE),
              Call("autoscaleSettings.listByResourceGroup(webApp)", FALSE),
              Call("pricings.get", FALSE),
              Call("diagnosticSettings.list", FALSE) >>
      [] k = "database" ->
           << Call("databases.get", TRUE),
              Call("servers.get", TRUE),
              Call("transparentDataEncryptions.get", TRUE),
              Call("backupShortTermRetentionPolicies.get", TRUE),
              Call("serverBlobAuditingPolicies.get", FALSE),
              Call("databaseBlobAuditingPolicies.get", FALSE),
              Call("firewallRules.listByServer", FALSE),
              Call("replicationLinks.listByDatabase", FALSE),
              Call("pricings.get", FALSE),
              Call("diagnosticSettings.list", FALSE) >>
      [] k = "redis" ->
           << Call("redis.get", TRUE),
              Call("diagnosticSettings.list", FALSE) >>
      [] k = "storage" ->
           << Call("storageAccounts.getProperties", TRUE),
              Call("blobServices.getServiceProperties", FALSE),
              Call("blobContainers.list", FALSE),
              Call("pricings.get", FALSE),
              Call("diagnosticSettings.list", FALSE) >>
      [] k = "alert" ->
           << Call("webApps.get", TRUE),
              Call("databases.get", TRUE),
              Call("redis.get", TRUE),
              Call("metricAlerts.listBySubscription", TRUE) >>

\* a plausible slip: every call wrapped in a try/catch of its own
IsPrimaryNever(k, i) == FALSE

IsPrimary(k, i) == Calls(k)[i].primary

IndexOfCall(k, name) == CHOOSE i \in 1..Len(Calls(k)) : Calls(k)[i].name = name

Succeeded(v) == [status |-> "ok", v |-> v]
Failed       == [status |-> "failed", v |-> "error"]
NotIssued    == [status |-> "skipped", v |-> "none"]

Ok(r) == r.status = "ok"

ResultOf(k, rs, name) == rs[IndexOfCall(k, name)]

\* ---- the values the API calls return ----

WebAppId   == <<"w","1">>
DatabaseId == <<"d","1">>
RedisId    == <<"r","1">>

\* App Service Plans: elasticScaleEnabled and sku.capacity
PlanValues ==
    { [id |-> <<"p","1">>, elasticScaleEnabled |-> FALSE, capacity |-> "2"],
      [id |-> <<"p","1">>, elasticScaleEnabled |-> FALSE, capacity |-> ""],
      [id |-> <<"p","1">>, elasticScaleEnabled |-> TRUE, capacity |-> "2"] }

\* backup configurations: without a schedule, with a complete one, and with
\* a schedule that has neither start time nor retention period
BackupConfigValues ==
    { [backupSchedule |-> FALSE, startTimeUtc |-> "", retentionPeriodInDays |-> ""],
      [backupSchedule |-> TRUE, startTimeUtc |-> "02:00:00", retentionPeriodInDays |-> "30"],
      [backupSchedule |-> TRUE, startTimeUtc |-> "", retentionPeriodInDays |-> ""] }

\* diagnostic logs configurations of a web app
LogsConfigValues ==
    { [applicationBlobLevel |-> "", httpFileSystem |-> FALSE, httpBlob |-> FALSE],
      [applicationBlobLevel |-> "Error", httpFileSystem |-> TRUE, httpBlob |-> TRUE],
      [applicationBlobLevel |-> "Off", httpFileSystem |-> FALSE, httpBlob |-> TRUE] }

\* Defender pricing tiers; "" is a pricing without pricingTier
PricingTiers == { "Standard", "Free", "" }

DiagnosticSetting(ws, sa, rule, hub) ==
    [workspaceId |-> ws, storageAccountId |-> sa,
     eventHubAuthorizationRuleId |-> rule, eventHubName |-> hub]

\* resource IDs as their '/'-separated segments; <<>> is an absent ID
WorkspacePath == <<"workspaces", "law1">>
AccountPath   == <<"storageAccounts", "logs1">>
RulePath      == <<"authorizationRules", "root">>

DiagnosticSettingShapes ==
    { DiagnosticSetting(WorkspacePath, <<>>, <<>>, ""),
      DiagnosticSetting(WorkspacePath, AccountPath, RulePath, "hub1"),
      DiagnosticSetting(<<>>, AccountPath, <<>>, ""),
      DiagnosticSetting(<<>>, AccountPath, RulePath, "hub1"),
      DiagnosticSetting(<<>>, <<>>, RulePath, "hub1"),
      DiagnosticSetting(<<>>, <<>>, RulePath, ""),
      DiagnosticSetting(<<>>, <<>>, <<>>, "hub1"),
      DiagnosticSetting(<<>>, <<>>, <<>>, "") }

DiagnosticSettingLists ==
    { <<>> } \cup { <<s>> : s \in DiagnosticSettingShapes }
      \cup { << DiagnosticSetting(<<>>, AccountPath, <<>>, ""),
                DiagnosticSetting(WorkspacePath, <<>>, <<>>, "") >> }

\* the publicAccess of the listed blob containers
ContainerLists == { <<>>, <<"None">>, <<"None", "Blob">>, <<"Container">> }

\* the partnerLocation of the listed replication links; "" is a link without
ReplicationLinkLists == { <<>>, <<"westeurope">>, <<"">> }

\* ---- the metric alerts of the subscription ----

s_cpu80 == <<"c","p","u","-","u","s","a","g","e","-","8","0">>
s_cpu90 == <<"c","p","u","-","u","s","a","g","e","-","9","0">>
s_memory_appservice == <<"m","e","m","o","r","y","-","a","p","p","s","e","r","v","i","c","e">>
s_dtu_consumption_percent == <<"d","t","u","_","c","o","n","s","u","m","p","t","i","o","n","_","p","e","r","c","e","n","t">>
s_connection_failed == <<"c","o","n","n","e","c","t","i","o","n","_","f","a","i","l","e","d">>
s_storage_percent == <<"s","t","o","r","a","g","e","_","p","e","r","c","e","n","t">>
s_usedmemorypercentage == <<"u","s","e","d","m","e","m","o","r","y","p","e","r","c","e","n","t","a","g","e">>
s_CpuPercentage == <<"C","p","u","P","e","r","c","e","n","t","a","g","e">>
s_serverLoad == <<"s","e","r","v","e","r","L","o","a","d">>

Alert(name, rg, scopes, metrics, enabled) ==
    [name |-> name, resourceGroup |-> rg, scopes |-> scopes,
     metricNames |-> metrics, enabled |-> enabled]

\* metric alerts a subscription holds: on the three resources, on a database
\* whose ID extends the database's ID, and on resources of other applications;
\* their names carry the tag of one environment, of both, or of none
AlertShapes ==
    { Alert(s_cpu80 \o s_dtest, "rg-main", <<WebAppId>>, <<s_CpuPercentage>>, TRUE),
      Alert(s_cpu90 \o s_dprod, "rg-other", <<<<"x","9">>>>, <<s_CpuPercentage>>, FALSE),
      Alert(s_cpu80 \o s_dtest \o s_dprod, "rg-main", <<WebAppId>>, <<s_CpuPercentage>>, TRUE),
      Alert(s_cpu80 \o <<"-">> \o s_cpu90, "rg-main", <<WebAppId>>, <<>>, TRUE),
      Alert(<<"d","b">> \o s_dtest, "rg-main", <<DatabaseId>>,
            <<s_dtu_consumption_percent, s_storage_percent>>, TRUE),
      Alert(s_memory_appservice, "", <<DatabaseId>>, <<s_connection_failed>>, FALSE),
      Alert(<<"r","e","d","i","s">>, "rg-main", <<<<"x","9">>, RedisId>>,
            <<s_usedmemorypercentage>>, TRUE),
      Alert(<<"l","o","a","d","-","P","R","O","D">>, "rg-main", <<RedisId>>,
            <<<<"S","e","r","v","e","r","L","o","a","d">>>>, TRUE),
      Alert(<<"d","b","2">>, "rg-other", <<DatabaseId \o <<"0">>>>,
            <<s_dtu_consumption_percent>>, TRUE),
      Alert(<<"o","t","h","e","r">>, "rg-other", <<<<"x","9">>>>,
            <<s_dtu_consumption_percent>>, TRUE) }

\* how many metric alerts the subscription holds at most
MaxAlerts == 2

AlertLists == SeqUpTo(AlertShapes, MaxAlerts)

\* the values a successful call can return
ResultValues(k, name) ==
    CASE name = "appServicePlans.get" -> PlanValues
      [] name = "webApps.get" -> { [id |-> WebAppId] }
      [] name = "databases.get" -> { [id |-> DatabaseId] }
      [] name = "redis.get" -> { [id |-> RedisId] }
      [] name = "storageAccounts.getProperties" -> { [id |-> <<"s","1">>] }
      [] name = "webApps.getBackupConfiguration" -> BackupConfigValues
      [] name = "webApps.getDiagnosticLogsConfiguration" -> LogsConfigValues
      [] name \in { "autoscaleSettings.listByResourceGroup(plan)",
                    "autoscaleSettings.listByResourceGroup(webApp)" } ->
           { "targets the plan", "none targets the plan" }
      [] name = "pricings.get" -> PricingTiers
      [] name = "diagnosticSettings.list" -> DiagnosticSettingLists
      [] name \in { "serverBlobAuditingPolicies.get",
                    "databaseBlobAuditingPolicies.get" } -> { "Enabled", "Disabled" }
      [] name = "firewallRules.listByServer" -> { "no rule", "some rules" }
      [] name = "replicationLinks.listByDatabase" -> ReplicationLinkLists
      [] name = "blobContainers.list" -> ContainerLists
      [] name = "metricAlerts.listBySubscription" -> AlertLists
      [] OTHER -> { "resource" }

\* ---- derived values ----

\* a record whose title is a literal
Rec(section, title, value) == [section |-> section, title |-> <<title>>, value |-> value]

\* a display string computed from the fields of the primary resources alone
FromPrimary(expression) == <<"${", expression, "}">>

\* path.split('/').pop()
LastSegment(path) == path[Len(path)]

\* a plausible slip: the status defaults to the enabled literal when the
\* pricing lookup fails
defenderStatusDefaultEnabled(k, pricing) ==
    IF ~Ok(pricing) THEN IF k = "storage" THEN <<"Enable">> ELSE <<"Enabled">>
    ELSE IF k = "storage"
         THEN IF pricing.v = "Standard" THEN <<"Enable">> ELSE <<"Disabled">>
         ELSE IF pricing.v = "Standard" \/ pricing.v = "Free"
              THEN <<"Enabled">> ELSE <<"Disabled">>

\* let defenderStatus = 'Disabled'; try { ... pricings.get ... } catch { warn }
defenderStatus(k, pricing) ==
    IF ~Ok(pricing) THEN <<"Disabled">>
    ELSE IF k = "storage"
         THEN IF pricing.v = "Standard" THEN <<"Enable">> ELSE <<"Disabled">>
         ELSE IF pricing.v = "Standard" \/ pricing.v = "Free"
              THEN <<"Enabled">> ELSE <<"Disabled">>

\* the list the diagnostic settings lookup leaves: empty when it failed
diagnosticSettingsList(diag) == IF Ok(diag) THEN diag.v ELSE <<>>

\* 'Enable all logs' in the redis and storage fetchers, 'Enabled' in the
\* web server and database fetchers
diagnosticSettingsValue(k, diag) ==
    IF Len(diagnosticSettingsList(diag)) > 0
    THEN IF k \in { "redis", "storage" } THEN <<"Enable all logs">> ELSE <<"Enabled">>
    ELSE <<"Disabled">>

\* a plausible slip: the storage account looked at before the workspace
destinationDetailsValueStorageFirst(k, diag) ==
    LET list == diagnosticSettingsList(diag) IN
    IF Len(list) = 0 THEN <<"-">>
    ELSE LET firstSetting == list[1] IN
         IF firstSetting.storageAccountId # <<>>
         THEN << "Storage Account: ", LastSegment(firstSetting.storageAccountId) >>
         ELSE IF firstSetting.workspaceId # <<>>
         THEN << IF k \in { "redis", "storage" } THEN "Log analytics workspace: "
                 ELSE "Log Analytics Workspace: ",
                 LastSegment(firstSetting.workspaceId) >>
         ELSE IF firstSetting.eventHubAuthorizationRuleId # <<>>
         THEN << "Event Hub: ",
                 IF firstSetting.eventHubName # "" THEN firstSetting.eventHubName
                 ELSE "Default" >>
         ELSE <<"-">>

destinationDetailsValue(k, diag) ==
    LET list == diagnosticSettingsList(diag) IN
    IF Len(list) = 0 THEN <<"-">>
    ELSE LET firstSetting == list[1] IN
         IF firstSetting.workspaceId # <<>>
         THEN << IF k \in { "redis", "storage" } THEN "Log analytics workspace: "
                 ELSE "Log Analytics Workspace: ",
                 LastSegment(firstSetting.workspaceId) >>
         ELSE IF firstSetting.storageAccountId # <<>>
         THEN << "Storage Account: ", LastSegment(firstSetting.storageAccountId) >>
         ELSE IF firstSetting.eventHubAuthorizationRuleId # <<>>
         THEN << "Event Hub: ",
                 IF firstSetting.eventHubName # "" THEN firstSetting.eventHubName
                 ELSE "Default" >>
         ELSE <<"-">>

\* ---- 00-web-server.ts ----

WebServerData(rs) ==
    LET R(name) == ResultOf("web-server", rs, name)
        plan == R("appServicePlans.get").v
        backupConfig == R("webApps.getBackupConfiguration")
        logsConfig == R("webApps.getDiagnosticLogsConfiguration")
        autoscaleSetting ==
            \E name \in { "autoscaleSettings.listByResourceGroup(plan)",
                          "autoscaleSettings.listByResourceGroup(webApp)" } :
                Ok(R(name)) /\ R(name).v = "targets the plan"
        scaleOutMethod ==
            IF autoscaleSetting THEN <<"Rules Based">>
            ELSE IF plan.elasticScaleEnabled THEN <<"Automatic">>
            ELSE << "Manual (", IF plan.capacity # "" THEN plan.capacity ELSE "N/A",
                    " instance(s))" >>
        hasSchedule == Ok(backupConfig) /\ backupConfig.v.backupSchedule
        backupScheduleValue ==
            IF hasSchedule
            THEN <<"Recurring">> \o
                   (IF backupConfig.v.startTimeUtc # ""
                    THEN <<" at ", backupConfig.v.startTimeUtc, " UTC">> ELSE <<>>)
            ELSE <<"-">>
        retention ==
            IF hasSchedule /\ backupConfig.v.retentionPeriodInDays # ""
            THEN backupConfig.v.retentionPeriodInDays ELSE "-"
        appLogsValue ==
            IF Ok(logsConfig) /\ logsConfig.v.applicationBlobLevel \notin { "", "Off" }
            THEN <<"Blob">> ELSE <<"-">>
        webServerLoggingValue ==
            IF Ok(logsConfig) /\ logsConfig.v.httpFileSystem THEN <<"File System">>
            ELSE IF Ok(logsConfig) /\ logsConfig.v.httpBlob THEN <<"Storage">>
            ELSE <<"Off">>
        diag == R("diagnosticSettings.list")
    IN << Rec("General", "Number of Azure Compute Units", FromPrimary("plan.sku.name")),
          Rec("General", "Custom domain", FromPrimary("hasSniSsl")),
          Rec("General", "Microsoft Defender for Cloud",
              defenderStatus("web-server", R("pricings.get"))),
          Rec("Services", "Geographical Location", FromPrimary("plan.location")),
          Rec("Configuration", "Scale out", scaleOutMethod),
          Rec("Services", "Data backup", <<"Daily, Retention ", retention, " Days">>),
          Rec("Services", "Backup schedule", backupScheduleValue),
          Rec("Services", "Application Logs", appLogsValue),
          Rec("Services", "Web server logging", webServerLoggingValue),
          Rec("Monitoring", "Diagnostic settings", diagnosticSettingsValue("web-server", diag)),
          Rec("Monitoring", "Destination details", destinationDetailsValue("web-server", diag)),
          Rec("General settings", "Stack and version", FromPrimary("config.netFrameworkVersion")),
          Rec("General settings", "FTP state", FromPrimary("config.ftpsState")),
          Rec("Platform settings", "HTTP version", FromPrimary("config.http20Enabled")),
          Rec("Platform settings", "Platform", FromPrimary("config.use32BitWorkerProcess")),
          Rec("Platform settings", "Web sockets", FromPrimary("config.webSocketsEnabled")),
          Rec("Platform settings", "Always on", FromPrimary("config.alwaysOn")),
          Rec("Platform settings", "HTTPS Only", FromPrimary("webApp.httpsOnly")),
          Rec("Platform settings", "Minimum TLS Version", FromPrimary("config.minTlsVersion")),
          Rec("Incoming client certificates", "Client certificate mode",
              FromPrimary("webApp.clientCertMode")) >>

\* ---- 01-database.ts (the en dashes of its literals are written '-') ----

DatabaseData(rs) ==
    LET R(name) == ResultOf("database", rs, name)
        serverAuditing == R("serverBlobAuditingPolicies.get")
        databaseAuditing == R("databaseBlobAuditingPolicies.get")
        firewallRules == R("firewallRules.listByServer")
        links == R("replicationLinks.listByDatabase")
        replicationLinks == IF Ok(links) THEN links.v ELSE <<>>
        auditingValue ==
            IF Ok(serverAuditing) /\ serverAuditing.v = "Enabled" THEN <<"on">>
            ELSE IF Ok(databaseAuditing) /\ databaseAuditing.v = "Enabled" THEN <<"on">>
            ELSE <<"off">>
        firewallValue ==
            IF Ok(firewallRules) /\ firewallRules.v = "some rules" THEN <<"on">> ELSE <<"off">>
        secondaryLocations == SelectSeq(replicationLinks, LAMBDA loc : loc # "")
        replicaDetails ==
            << "Primary - ", "${primaryLocation}" >> \o
              (IF Len(secondaryLocations) > 0
               THEN <<"\nSecondary - ">> \o secondaryLocations ELSE <<>>)
        diag == R("diagnosticSettings.list")
    IN << Rec("General", "Number of DTUs", FromPrimary("db.currentSku")),
          Rec("Configuration", "Geo-Replication", <<ToString(Len(replicationLinks))>>),
          Rec("Services", "Transparent data encryption", FromPrimary("tde.state")),
          Rec("Services", "SQL Server - Auditing logs", auditingValue),
          Rec("Services", "SQL Server - Firewall", firewallValue),
          Rec("Services", "Data backup",
              <<"Daily, Retention ", "${retentionPolicy.retentionDays || '7'}", " Days">>),
          Rec("Services", "Backup schedule", <<"Automatic (System Managed)">>),
          Rec("Security", "Microsoft Defender for Cloud",
              defenderStatus("database", R("pricings.get"))),
          Rec("Data Management", "Replicas", replicaDetails),
          Rec("Monitoring", "Diagnostic settings", diagnosticSettingsValue("database", diag)),
          Rec("Monitoring", "Destination details", destinationDetailsValue("database", diag)) >>

\* ---- 03-redis.ts ----

RedisData(rs) ==
    LET diag == ResultOf("redis", rs, "diagnosticSettings.list")
    IN << Rec("General", "Memory", FromPrimary("skuDetails.memory")),
          Rec("General", "SLA", FromPrimary("slaValue")),
          Rec("General", "Encryption in transit", FromPrimary("encryptionValue")),
          Rec("General", "Connections", FromPrimary("skuDetails.connections")),
          Rec("General", "Allow access only via SSL", FromPrimary("sslOnlyValue")),
          Rec("General", "Location", FromPrimary("redisCache.location")),
          Rec("General", "Pricing Tier", FromPrimary("redisCache.sku")),
          Rec("Advanced settings", "Non-SSL Port", FromPrimary("nonSslPortValue")),
          Rec("Advanced settings", "SSL Port", FromPrimary("sslPortValue")),
          Rec("Advanced settings", "Minimum TLS version", FromPrimary("tlsVersion")),
          Rec("Advanced settings", "Maxmemory policy", FromPrimary("maxMemoryPolicy")),
          Rec("Advanced settings", "Redis Version", FromPrimary("redisCache.redisVersion")),
          Rec("Security", "Access Keys", FromPrimary("redisCache.accessKeys")),
          Rec("Monitoring", "Diagnostic settings", diagnosticSettingsValue("redis", diag)),
          Rec("Monitoring", "Destination details", destinationDetailsValue("redis", diag)) >>

\* ---- 02-storage.ts ----

StorageData(rs) ==
    LET R(name) == ResultOf("storage", rs, name)
        listed == R("blobContainers.list")
        containers == IF Ok(listed) THEN listed.v ELSE <<>>
        hasPublic == \E i \in 1..Len(containers) : containers[i] \in { "Blob", "Container" }
        containerAccessLevel ==
            IF Len(containers) > 0 /\ hasPublic
            THEN <<"Public (Blob or Container level)">> ELSE <<"Private">>
        diag == R("diagnosticSettings.list")
    IN << Rec("General", "Account Kind", FromPrimary("account.kind")),
          Rec("General", "Performance", FromPrimary("account.sku.tier")),
          Rec("General", "Replication", FromPrimary("account.sku.name")),
          Rec("General", "Access Tier", FromPrimary("account.accessTier")),
          Rec("General", "Local replica", FromPrimary("replicationDetails.replicas")),
          Rec("General", "SLA", FromPrimary("slaValue")),
          Rec("General", "Geographical Location", FromPrimary("geographicalLocation")),
          Rec("Container", "Change access level", containerAccessLevel),
          Rec("Security", "Encryption type", FromPrimary("encryptionType")),
          Rec("Security", "Secure transfer required", FromPrimary("account.enableHttpsTrafficOnly")),
          Rec("Security", "Allow Blob public access", FromPrimary("account.allowBlobPublicAccess")),
          Rec("Security", "Microsoft Defender for Cloud",
              defenderStatus("storage", R("pricings.get"))),
          Rec("Configuration", "Minimum TLS version", FromPrimary("account.minimumTlsVersion")),
          Rec("Configuration", "Large file shares", FromPrimary("account.largeFileSharesState")),
          Rec("Monitoring", "Diagnostic settings", diagnosticSettingsValue("storage", diag)),
          Rec("Monitoring", "Destination details", destinationDetailsValue("storage", diag)) >>

\* ---- 04-alert.ts ----

isAlertForEnvironment(alertName, targetEnvironment) ==
    IF alertName = <<>> \/ targetEnvironment = "unknown" THEN TRUE
    ELSE LET normalizedAlertName == toLowerCase(alertName) IN
         IF targetEnvironment = "prod"
         THEN includes(normalizedAlertName, s_prod) /\ ~includes(normalizedAlertName, s_test)
         ELSE IF targetEnvironment = "test"
         THEN \/ includes(normalizedAlertName, s_test)
              \/ (~includes(normalizedAlertName, s_prod)
                    /\ ~includes(normalizedAlertName, s_production))
         ELSE TRUE

\* prefer the web app's environment, then the SQL server's, then the
\* resource group's
targetEnvironmentOf(in) ==
    IF detectEnvironment(in.webAppName) # "unknown" THEN detectEnvironment(in.webAppName)
    ELSE IF detectEnvironment(in.sqlServerName) # "unknown"
    THEN detectEnvironment(in.sqlServerName)
    ELSE detectEnvironment(in.primaryResourceGroupName)

\* the positions, in the listing, of the alerts kept in metricAlerts
metricAlertsOf(listing, targetEnvironment) ==
    SelectSeq([i \in 1..Len(listing) |-> i],
              LAMBDA i : isAlertForEnvironment(listing[i].name, targetEnvironment))

findAlertsByResourceAndMetric(listing, metricAlerts, targetEnvironment, resourceId, metricName) ==
    SelectSeq(metricAlerts, LAMBDA i :
        /\ \E s \in 1..Len(listing[i].scopes) : includes(listing[i].scopes[s], resourceId)
        /\ \E c \in 1..Len(listing[i].metricNames) :
              includes(toLowerCase(listing[i].metricNames[c]), toLowerCase(metricName))
        /\ isAlertForEnvironment(listing[i].name, targetEnvironment))

findAlertsByNamePattern(listing, metricAlerts, targetEnvironment, namePattern) ==
    SelectSeq(metricAlerts, LAMBDA i :
        /\ includes(toLowerCase(listing[i].name), toLowerCase(namePattern))
        /\ isAlertForEnvironment(listing[i].name, targetEnvironment))

\* addAlertsToData: one record per alert of the list.  The field `from` is
\* the position of the alert in the subscription listing; it is kept for the
\* properties below and is not written to the file.
addAlertsToData(listing, alerts, sectionName) ==
    [n \in 1..Len(alerts) |->
        LET alert == listing[alerts[n]] IN
        [ section |-> sectionName,
          title |-> << getEnvironmentDisplayName(detectEnvironment(alert.name)), " - " >>
                      \o alert.name
                      \o << " (RG: ",
                            IF alert.resourceGroup # "" THEN alert.resourceGroup ELSE "Unknown",
                            ")" >>,
          value |-> IF alert.enabled THEN <<"Enabled">> ELSE <<"Disabled">>,
          from |-> alerts[n] ]]

ConfigRec(section, title, value) ==
    [section |-> section, title |-> <<title>>, value |-> value, from |-> 0]

AlertData(rs, in) ==
    LET R(name) == ResultOf("alert", rs, name)
        targetEnvironment == targetEnvironmentOf(in)
        databaseResourceId == R("databases.get").v.id
        redisResourceId == R("redis.get").v.id
        listing == R("metricAlerts.listBySubscription").v
        metricAlerts == metricAlertsOf(listing, targetEnvironment)
        ByName(p) == findAlertsByNamePattern(listing, metricAlerts, targetEnvironment, p)
        ByMetric(id, m) ==
            findAlertsByResourceAndMetric(listing, metricAlerts, targetEnvironment, id, m)
    IN addAlertsToData(listing, ByName(s_cpu90), "App Service CPU 90%")
       \o addAlertsToData(listing, ByName(s_cpu80), "App Service CPU 80%")
       \o addAlertsToData(listing, ByName(s_memory_appservice), "App Service Memory")
       \o addAlertsToData(listing, ByMetric(databaseResourceId, s_dtu_consumption_percent),
                          "Database CPU")
       \o addAlertsToData(listing, ByMetric(databaseResourceId, s_connection_failed),
                          "Database Connections")
       \o addAlertsToData(listing, ByMetric(databaseResourceId, s_storage_percent),
                          "Database Storage")
       \o addAlertsToData(listing, ByMetric(redisResourceId, s_usedmemorypercentage),
                          "Redis Memory")
       \o addAlertsToData(listing, ByMetric(redisResourceId, s_CpuPercentage), "Redis CPU")
       \o addAlertsToData(listing, ByMetric(redisResourceId, s_serverLoad), "Redis Server Load")
       \o << ConfigRec("Configuration", "Cross-Resource-Group Setup",
                       IF in.crossResourceGroup THEN <<"Enabled (Advanced Setup)">>
                       ELSE <<"Standard Setup">>),
             ConfigRec("Resource Groups", "Primary Resource Group", in.primaryResourceGroupName),
             ConfigRec("Resource Groups", "Web App Resource Group", <<"${webAppResourceGroup}">>),
             ConfigRec("Resource Groups", "SQL Resource Group", <<"${sqlResourceGroup}">>),
             ConfigRec("Resource Groups", "Redis Resource Group", <<"${redisResourceGroup}">>) >>

\* ---- one fetcher call ----

\* the records the fetcher assembles from the results of its calls
DataOf(k, rs, in) ==
    CASE k = "web-server" -> WebServerData(rs)
      [] k = "database" -> DatabaseData(rs)
      [] k = "redis" -> RedisData(rs)
      [] k = "storage" -> StorageData(rs)
      [] k = "alert" -> AlertData(rs, in)

\* the web server fetcher lists the autoscale settings of the web app's
\* resource group only when the plan's resource group gave no match and the
\* two resource groups differ
IsIssued(k, i, rs, in) ==
    Calls(k)[i].name = "autoscaleSettings.listByResourceGroup(webApp)" =>
        /\ Ok(rs[i - 1]) /\ rs[i - 1].v = "none targets the plan"
        /\ in.crossResourceGroup

\* the results once the call at position Len(rs) has returned r: a call
\* that is not issued is passed over
WithResult(k, rs, r, in) ==
    LET next == Append(rs, r) IN
    IF Len(next) < Len(Calls(k)) /\ ~IsIssued(k, Len(next) + 1, next, in)
    THEN Append(next, NotIssued) ELSE next

NoFile == [exists |-> FALSE, content |-> <<>>]

\* what an earlier run left in the output directory
PreviousFiles == { NoFile, [exists |-> TRUE, content |-> << <<"records of the earlier run">> >>] }

\* the arguments: the names the alert fetcher infers the environment from,
\* and whether resources lie in different resource groups
InputsOf(k) ==
    IF k = "alert"
    THEN { [webAppName |-> w, sqlServerName |-> q,
            primaryResourceGroupName |-> s_batchline_orbia, crossResourceGroup |-> FALSE] :
             w \in { s_batchline_orbia \o s_dtest \o s_legacy,
                     s_batchline_orbia \o s_dprod \o s_legacy,
                     s_batchline_orbia \o s_legacy },
             q \in { s_batchline_orbia, s_batchline_orbia \o s_dtest } }
    ELSE { [webAppName |-> <<>>, sqlServerName |-> <<>>,
            primaryResourceGroupName |-> s_batchline_orbia, crossResourceGroup |-> c] :
             c \in IF k = "web-server" THEN BOOLEAN ELSE { FALSE } }

FetchIdle ==
    /\ fetcher = "idle"
    /\ inputs = <<>>
    /\ fetchState = "idle"
    /\ step = 0
    /\ results = <<>>
    /\ warnings = {}
    /\ thrown = ""
    /\ outputFile = NoFile
    /\ previousFile = NoFile

FetchInit ==
    /\ subscriptionId \in BOOLEAN
    /\ fetcher \in Kinds
    /\ inputs \in InputsOf(fetcher)
    /\ fetchState = "start"
    /\ step = 0
    /\ results = <<>>
    /\ warnings = {}
    /\ thrown = ""
    /\ previousFile \in PreviousFiles
    /\ outputFile = previousFile

\* a plausible slip: the clients built without the subscription ID being
\* looked at
FetcherStartWithoutSubscriptionCheck ==
    /\ fetchState = "start"
    /\ fetchState' = "running" /\ step' = 1 /\ UNCHANGED thrown
    /\ UNCHANGED <<subscriptionId, fetcher, inputs, results, warnings, outputFile, previousFile>>

\* the synchronous head of the fetcher: without azure_subscription_id it
\* throws inside the try block; the catch block logs and rethrows
FetcherStart ==
    /\ fetchState = "start"
    /\ IF subscriptionId
       THEN fetchState' = "running" /\ step' = 1 /\ UNCHANGED thrown
       ELSE fetchState' = "rejected" /\ thrown' = "azure_subscription_id is not set"
              /\ UNCHANGED step
    /\ UNCHANGED <<subscriptionId, fetcher, inputs, results, warnings, outputFile, previousFile>>

\* the code that runs once the awaited call has settled and rs holds its
\* outcome: the next call is issued, or, after the last call, the data is
\* assembled, the output directory is made when missing and the file is
\* written with writeFileSync
Continue(rs) ==
    /\ results' = rs
    /\ step' = Len(rs) + 1
    /\ IF Len(rs) = Len(Calls(fetcher))
       THEN /\ outputFile' = [exists |-> TRUE, content |-> DataOf(fetcher, rs, inputs)]
            /\ fetchState' = "resolved"
       ELSE UNCHANGED <<outputFile, fetchState>>

\* an awaited API call returns a value
CallReturns ==
    /\ fetchState = "running"
    /\ \E v \in ResultValues(fetcher, Calls(fetcher)[step].name) :
          Continue(WithResult(fetcher, results, Succeeded(v), inputs))
    /\ UNCHANGED <<subscriptionId, fetcher, inputs, warnings, thrown, previousFile>>

\* a call outside any inner try/catch throws: the catch block of the
\* fetcher logs the error and rethrows it
PrimaryCallThrows ==
    /\ fetchState = "running"
    /\ IsPrimary(fetcher, step)
    /\ fetchState' = "rejected"
    /\ thrown' = Calls(fetcher)[step].name
    /\ results' = Append(results, Failed)
    /\ UNCHANGED <<subscriptionId, fetcher, inputs, step, warnings, outputFile, previousFile>>

\* a call inside an inner try/catch throws: console.warn, and the fetcher
\* goes on with the default
OptionalCallThrows ==
    /\ fetchState = "running"
    /\ ~IsPrimary(fetcher, step)
    /\ Continue(WithResult(fetcher, results, Failed, inputs))
    /\ warnings' = warnings \cup { Calls(fetcher)[step].name }
    /\ UNCHANGED <<subscriptionId, fetcher, inputs, thrown, previousFile>>

FetcherNext ==
    \/ FetcherStart
    \/ CallReturns
    \/ PrimaryCallThrows
    \/ OptionalCallThrows

(***************************************************************************)
(* main (main.ts): the five fetchers run concurrently under Promise.all,  *)
(* then generateDocument.  Here a fetcher is followed call by call; the    *)
(* values its calls return are those of the fetcher specification.         *)
(***************************************************************************)

\* a plausible slip: Promise.any in place of Promise.all
AnyFulfilled(fs) == \E k \in Kinds : fs[k].promise = "fulfilled"

\* Promise.all fulfils once every promise of the array is fulfilled
AllFulfilled(fs) == \A k \in Kinds : fs[k].promise = "fulfilled"

\* Promise.all rejects as soon as one promise of the array is rejected
AnyRejected(fs) == \E k \in Kinds : fs[k].promise = "rejected"

\* the positions the fetcher may be at after the call at position i: the
\* web server fetcher may pass over its second autoscale listing
AfterCall(k, i) ==
    IF i < Len(Calls(k))
         /\ Calls(k)[i + 1].name = "autoscaleSettings.listByResourceGroup(webApp)"
    THEN { i + 1, i + 2 } ELSE { i + 1 }

MainIdle ==
    /\ mainPc = "idle"
    /\ fetchers = <<>>
    /\ files = <<>>
    /\ docInvoked = FALSE
    /\ exitCode = -1

MainInit ==
    /\ subscriptionId \in BOOLEAN
    /\ mainPc = "start"
    /\ fetchers = [k \in Kinds |-> [promise |-> "none", step |-> 0, threw |-> FALSE]]
    /\ files = [k \in Kinds |-> "previous"]
    /\ docInvoked = FALSE
    /\ exitCode = -1

\* main up to `await Promise.all([...])`: the five fetchers are called one
\* after the other, each running to its first await; without
\* azure_subscription_id each of them returns a rejected promise
MainStart ==
    /\ mainPc = "start"
    /\ mainPc' = "awaiting"
    /\ fetchers' = [k \in Kinds |->
          IF subscriptionId
          THEN [promise |-> "pending", step |-> 1, threw |-> FALSE]
          ELSE [promise |-> "rejected", step |-> 0, threw |-> TRUE]]
    /\ UNCHANGED <<subscriptionId, files, docInvoked, exitCode>>

\* a fetcher runs while the process lives.  A rejection reaches main's
\* catch block through promise reactions alone, which run before the event
\* loop hands the next response to a sibling.
MayContinue(k) ==
    /\ mainPc = "awaiting"
    /\ fetchers[k].promise = "pending"
    /\ ~AnyRejected(fetchers)

\* the call fetcher k awaits settles with `threw`, and the fetcher goes on
\* to position `next`: past its last call it writes its file and resolves
FetcherContinues(k, threw, next) ==
    /\ fetchers' = [fetchers EXCEPT ![k] =
          [promise |-> IF next > Len(Calls(k)) THEN "fulfilled" ELSE "pending",
           step |-> next,
           threw |-> @.threw \/ threw]]
    /\ files' = IF next > Len(Calls(k)) THEN [files EXCEPT ![k] = "new"] ELSE files

\* the call fetcher k awaits returns
FetcherCallReturns(k) ==
    /\ MayContinue(k)
    /\ \E next \in AfterCall(k, fetchers[k].step) : FetcherContinues(k, FALSE, next)
    /\ UNCHANGED <<subscriptionId, mainPc, docInvoked, exitCode>>

\* the call fetcher k awaits throws inside an inner try/catch
FetcherOptionalCallThrows(k) ==
    /\ MayContinue(k)
    /\ ~IsPrimary(k, fetchers[k].step)
    /\ \E next \in AfterCall(k, fetchers[k].step) : FetcherContinues(k, TRUE, next)
    /\ UNCHANGED <<subscriptionId, mainPc, docInvoked, exitCode>>

\* the call fetcher k awaits throws outside any inner try/catch: the
\* catch block of the fetcher logs and rethrows, and its promise rejects
FetcherPrimaryCallThrows(k) ==
    /\ MayContinue(k)
    /\ IsPrimary(k, fetchers[k].step)
    /\ fetchers' = [fetchers EXCEPT ![k] =
          [promise |-> "rejected", step |-> @.step, threw |-> TRUE]]
    /\ UNCHANGED <<subscriptionId, mainPc, files, docInvoked, exitCode>>

\* Promise.all has rejected: main's catch block logs and calls process.exit(1)
MainCatch ==
    /\ mainPc = "awaiting"
    /\ AnyRejected(fetchers)
    /\ mainPc' = "exited"
    /\ exitCode' = 1
    /\ UNCHANGED <<subscriptionId, fetchers, files, docInvoked>>

\* Promise.all has fulfilled: main calls generateDocument; when it throws,
\* the catch block logs and calls process.exit(1)
MainGenerateDocument ==
    /\ mainPc = "awaiting"
    /\ AllFulfilled(fetchers)
    /\ docInvoked' = TRUE
    /\ \E threw \in BOOLEAN :
          IF threw THEN mainPc' = "exited" /\ exitCode' = 1
          ELSE mainPc' = "completed" /\ exitCode' = 0
    /\ UNCHANGED <<subscriptionId, fetchers, files>>

MainNext ==
    \/ MainStart
    \/ \E k \in Kinds : FetcherCallReturns(k)
    \/ \E k \in Kinds : FetcherOptionalCallThrows(k)
    \/ \E k \in Kinds : FetcherPrimaryCallThrows(k)
    \/ MainCatch
    \/ MainGenerateDocument

(***************************************************************************)
(* Document loading: loadDataFiles and generateDocument                    *)
(* (doc-generators/document-generator.ts, doc-generators/utils/data-loader)*)
(***************************************************************************)

\* the UTF-16 code unit of each character the file names use
charCodeAt ==
    [c \in {"-", ".", "B", "a", "b", "d", "e", "j", "k", "l", "n", "o", "r", "s",
            "t", "v", "w"} |->
        CASE c = "-" -> 45  [] c = "." -> 46  [] c = "B" -> 66  [] c = "a" -> 97
          [] c = "b" -> 98  [] c = "d" -> 100 [] c = "e" -> 101 [] c = "j" -> 106
          [] c = "k" -> 107 [] c = "l" -> 108 [] c = "n" -> 110 [] c = "o" -> 111
          [] c = "r" -> 114 [] c = "s" -> 115 [] c = "t" -> 116 [] c = "v" -> 118
          [] c = "w" -> 119]

\* String.prototype.toUpperCase on the letters the file names use
UpperOf ==
    [c \in {"a", "b", "d", "j", "k", "n", "o", "s", "t"} |->
        CASE c = "a" -> "A" [] c = "b" -> "B" [] c = "d" -> "D" [] c = "j" -> "J"
          [] c = "k" -> "K" [] c = "n" -> "N" [] c = "o" -> "O" [] c = "s" -> "S"
          [] c = "t" -> "T"]

toUpperCase(s) ==
    [i \in 1..Len(s) |-> IF s[i] \in DOMAIN UpperOf THEN UpperOf[s[i]] ELSE s[i]]

s_ddatajson == <<"-","d","a","t","a",".","j","s","o","n">>
s_Specification == <<" ","S","p","e","c","i","f","i","c","a","t","i","o","n">>

RECURSIVE StringLess(_, _)
\* a < b for two strings: the comparison Array.prototype.sort() makes, by
\* UTF-16 code units
StringLess(a, b) ==
    IF b = <<>> THEN FALSE
    ELSE IF a = <<>> THEN TRUE
    ELSE IF charCodeAt[Head(a)] # charCodeAt[Head(b)]
         THEN charCodeAt[Head(a)] < charCodeAt[Head(b)]
    ELSE StringLess(Tail(a), Tail(b))

RECURSIVE Insert(_, _)
Insert(x, sorted) ==
    IF sorted = <<>> THEN <<x>>
    ELSE IF StringLess(Head(sorted), x) THEN <<Head(sorted)>> \o Insert(x, Tail(sorted))
    ELSE <<x>> \o sorted

\* a plausible slip: the listing used in the order readdirSync returned it
sortOmitted(names) == names

RECURSIVE sort(_)
\* Array.prototype.sort() without a comparator
sort(names) ==
    IF names = <<>> THEN <<>> ELSE Insert(Head(names), sort(Tail(names)))

\* String.prototype.indexOf, 0 when sub does not occur (positions from 1)
indexOf(s, sub) ==
    IF includes(s, sub)
    THEN CHOOSE i \in 1..(Len(s) - Len(sub) + 1) :
            /\ SubSeq(s, i, i + Len(sub) - 1) = sub
            /\ \A j \in 1..(i - 1) : SubSeq(s, j, j + Len(sub) - 1) # sub
    ELSE 0

\* String.prototype.replace with a string pattern: the first occurrence only
replace(s, sub, by) ==
    LET i == indexOf(s, sub) IN
    IF i = 0 THEN s
    ELSE SubSeq(s, 1, i - 1) \o by \o SubSeq(s, i + Len(sub), Len(s))

RECURSIVE split(_, _)
\* String.prototype.split on a one-character separator
split(s, sep) ==
    LET i == indexOf(s, <<sep>>) IN
    IF i = 0 THEN <<s>>
    ELSE <<SubSeq(s, 1, i - 1)>> \o split(SubSeq(s, i + 1, Len(s)), sep)

RECURSIVE join(_, _)
\* Array.prototype.join
join(words, sep) ==
    IF words = <<>> THEN <<>>
    ELSE IF Len(words) = 1 THEN Head(words)
    ELSE Head(words) \o <<sep>> \o join(Tail(words), sep)

\* word.charAt(0).toUpperCase() + word.slice(1)
capitalize(word) ==
    IF word = <<>> THEN <<>> ELSE toUpperCase(<<Head(word)>>) \o Tail(word)

\* the title auto-discovery derives from a file name
titleOf(filename) ==
    LET words == split(replace(filename, s_ddatajson, <<>>), "-") IN
    join([i \in 1..Len(words) |-> capitalize(words[i])], " ") \o s_Specification

(***************************************************************************)
(* The output directory and CONFIG                                         *)
(***************************************************************************)

\* fs.readdirSync(outputDir)
readdirSync == [i \in 1..Len(outputDir) |-> outputDir[i].name]

\* fs.existsSync(path.join(outputDir, filename))
existsSync(filename) ==
    outputDirExists /\ \E i \in 1..Len(outputDir) : outputDir[i].name = filename

\* fs.readFileSync(path.join(outputDir, filename), 'utf8')
readFileSync(filename) ==
    outputDir[CHOOSE i \in 1..Len(outputDir) : outputDir[i].name = filename].content

\* the file texts of the model: two JSON arrays and one text that is not JSON
FileContents == { "[]", "[r1]", "{" }

\* JSON.parse throws on a text that is not JSON
JSONparseThrows(text) == text \notin { "[]", "[r1]" }

JSONparse(text) == IF text = "[]" THEN <<>> ELSE <<"r1">>

\* console.warn of loadDataFiles and generateDocument
Warn(message, subject) == [message |-> message, subject |-> subject]

LoadedData(filename, title, sectionNumber, records) ==
    [filename |-> filename, title |-> title, sectionNumber |-> sectionNumber,
     data |-> records]

(***************************************************************************)
(* loadDataFiles                                                           *)
(***************************************************************************)

RECURSIVE forEachFile(_, _, _, _)
\* files.forEach((filename, index) => ...) of auto-discovery, from the i-th
\* file on; numbering is the part of the section number before the index
forEachFile(fileList, i, numbering, acc) ==
    IF i > Len(fileList) THEN acc
    ELSE
        LET filename == fileList[i]
            text == readFileSync(filename)
        IN  IF JSONparseThrows(text)
            THEN forEachFile(fileList, i + 1, numbering,
                    [acc EXCEPT !.warnings = @ \o <<Warn("Could not load", filename)>>])
            ELSE forEachFile(fileList, i + 1, numbering,
                    [acc EXCEPT !.loadedData = @ \o
                        <<LoadedData(filename, titleOf(filename),
                                     numbering \o <<i>>, JSONparse(text))>>])

RECURSIVE forOfSections(_, _, _, _)
\* for (const section of CONFIG.documentSections) of manual mode, from the
\* i-th descriptor on; byIndex is TRUE where the section number is built
\* from the position of the descriptor
forOfSections(sections, i, byIndex, acc) ==
    IF i > Len(sections) THEN acc
    ELSE
        LET section == sections[i]
            sectionNumber == IF byIndex THEN <<3, i>> ELSE section.sectionNumber
        IN  IF ~section.enabled
            THEN forOfSections(sections, i + 1, byIndex, acc)
            ELSE IF ~existsSync(section.filename)
            THEN forOfSections(sections, i + 1, byIndex,
                    [acc EXCEPT !.warnings = @ \o
                        <<Warn("File not found", section.filename)>>])
            ELSE IF JSONparseThrows(readFileSync(section.filename))
            THEN forOfSections(sections, i + 1, byIndex,
                    [acc EXCEPT !.warnings = @ \o
                        <<Warn("Could not load", section.title)>>])
            ELSE forOfSections(sections, i + 1, byIndex,
                    [acc EXCEPT !.loadedData = @ \o
                        <<LoadedData(section.filename, section.title, sectionNumber,
                                     JSONparse(readFileSync(section.filename)))>>])

NoneLoaded == [loadedData |-> <<>>, warnings |-> <<>>]

IsDataFile(file) == endsWith(file, s_ddatajson)

\* the files auto-discovery processes
discoveredFiles == sort(SelectSeq(readdirSync, IsDataFile))

\* loadDataFiles of document-generator.ts and of utils/data-loader.ts: what
\* it returns and what it warns
loadDataFiles ==
    IF useAutoDiscovery
    THEN IF ~outputDirExists
         THEN [NoneLoaded EXCEPT !.warnings = <<Warn("Output directory not found", <<>>)>>]
         ELSE forEachFile(discoveredFiles, 1,
                          IF loader = "data-loader" THEN <<3>> ELSE <<2, 2>>, NoneLoaded)
    ELSE forOfSections(documentSections, 1, loader = "data-loader", NoneLoaded)

(***************************************************************************)
(* Inputs of a document generation run                                     *)
(***************************************************************************)

f_a_data_json     == <<"a","-","d","a","t","a",".","j","s","o","n">>
f_b_data_json     == <<"b","-","d","a","t","a",".","j","s","o","n">>
f_a_b_data_json   == <<"a","-","b","-","d","a","t","a",".","j","s","o","n">>
f_B_data_json     == <<"B","-","d","a","t","a",".","j","s","o","n">>
f_a_json          == <<"a",".","j","s","o","n">>
f_a_data_json_bak == <<"a","-","d","a","t","a",".","j","s","o","n",".","b","a","k">>

\* the names the output directory may hold in auto-discovery runs
FileNames ==
    { f_a_data_json, f_b_data_json, f_a_b_data_json, f_B_data_json,
      f_a_json, f_a_data_json_bak }

\* the most files the output directory holds
MaxFiles == 3

\* the directory listings: at most MaxFiles files with different names, in
\* whatever order readdirSync returns them
Listings(names) ==
    { listing \in SeqUpTo([name : names, content : FileContents], MaxFiles) :
        \A i, j \in 1..Len(listing) : i # j => listing[i].name # listing[j].name }

f_web_server_data_json == <<"w","e","b","-","s","e","r","v","e","r","-","d","a","t","a",".","j","s","o","n">>
f_alert_data_json      == <<"a","l","e","r","t","-","d","a","t","a",".","j","s","o","n">>
t_Web_Server_Specification == <<"W","e","b"," ","S","e","r","v","e","r"," ","S","p","e","c","i","f","i","c","a","t","i","o","n">>
t_Performance_Monitoring   == <<"P","e","r","f","o","r","m","a","n","c","e"," ","M","o","n","i","t","o","r","i","n","g">>

\* the descriptors of CONFIG.documentSections for the web server and the
\* alert data, as config.ts numbers them ('3.1', '3.5' and '2.2.1', '2.2.6'),
\* each enabled or disabled
Descriptors ==
    { [filename |-> d[1], title |-> d[2], sectionNumber |-> d[3], enabled |-> e] :
        d \in { <<f_web_server_data_json, t_Web_Server_Specification, <<3, 1>> >>,
                <<f_web_server_data_json, t_Web_Server_Specification, <<2, 2, 1>> >>,
                <<f_alert_data_json, t_Performance_Monitoring, <<3, 5>> >>,
                <<f_alert_data_json, t_Performance_Monitoring, <<2, 2, 6>> >> },
        e \in BOOLEAN }

\* the most descriptors CONFIG.documentSections holds
MaxSections == 2

\* CONFIG.documentSections as shipped, cut to the modelled descriptors
ShippedSections ==
    << [filename |-> f_web_server_data_json, title |-> t_Web_Server_Specification,
        sectionNumber |-> <<3, 1>>, enabled |-> TRUE],
       [filename |-> f_alert_data_json, title |-> t_Performance_Monitoring,
        sectionNumber |-> <<3, 5>>, enabled |-> TRUE] >>

NoArtifact == [state |-> "absent", headings |-> <<>>, contents |-> <<>>]
PreviousArtifact == [state |-> "previous", headings |-> <<>>, contents |-> <<>>]

DocIdle ==
    /\ loader = "document-generator"
    /\ useAutoDiscovery = FALSE
    /\ outputDirExists = FALSE
    /\ outputDir = <<>>
    /\ documentSections = <<>>
    /\ loadedData = <<>>
    /\ docWarnings = <<>>
    /\ docPc = "idle"
    /\ artifact = NoArtifact

DocInit ==
    /\ loader \in { "document-generator", "data-loader" }
    /\ useAutoDiscovery \in BOOLEAN
    /\ outputDirExists \in BOOLEAN
    /\ IF useAutoDiscovery
       THEN /\ outputDir \in (IF outputDirExists THEN Listings(FileNames) ELSE { <<>> })
            /\ documentSections = ShippedSections
       ELSE /\ outputDir \in
                (IF outputDirExists
                 THEN { listing \in Listings({ f_web_server_data_json, f_alert_data_json }) :
                          \A i \in 1..(Len(listing) - 1) :
                              StringLess(listing[i].name, listing[i + 1].name) }
                 ELSE { <<>> })
            /\ documentSections \in SeqUpTo(Descriptors, MaxSections)
    /\ loadedData = <<>>
    /\ docWarnings = <<>>
    /\ docPc = "call"
    /\ artifact \in { NoArtifact, PreviousArtifact }

(***************************************************************************)
(* generateDocument                                                        *)
(***************************************************************************)

\* a plausible slip: the document built and packed also when nothing loaded
GenerateDocumentWithoutEmptyCheck ==
    /\ docPc = "call"
    /\ LET loaded == loadDataFiles IN
        /\ loadedData' = loaded.loadedData
        /\ docWarnings' = loaded.warnings
        /\ docPc' = "packing"
    /\ UNCHANGED <<loader, useAutoDiscovery, outputDirExists, outputDir,
                   documentSections, artifact>>

\* generateDocument up to its return: it loads the data files and, when
\* there are none, warns and returns; otherwise it builds the document and
\* hands it to Packer.toBuffer
GenerateDocument ==
    /\ docPc = "call"
    /\ LET loaded == loadDataFiles IN
        /\ loadedData' = loaded.loadedData
        /\ IF Len(loaded.loadedData) = 0
           THEN /\ docWarnings' = loaded.warnings \o <<Warn("No data files found", <<>>)>>
                /\ docPc' = "returned"
           ELSE /\ docWarnings' = loaded.warnings
                /\ docPc' = "packing"
    /\ UNCHANGED <<loader, useAutoDiscovery, outputDirExists, outputDir,
                   documentSections, artifact>>

t_Client_Specification_Requirements ==
    <<"C","l","i","e","n","t"," ","S","p","e","c","i","f","i","c","a","t","i","o","n"," ","R","e","q","u","i","r","e","m","e","n","t","s">>

Heading(sectionNumber, title) == [sectionNumber |-> sectionNumber, title |-> title]

\* `${item.sectionNumber} ${item.title}` for every loaded document
specificationSections(loaded) ==
    [i \in 1..Len(loaded) |-> Heading(loaded[i].sectionNumber, loaded[i].title)]

\* `3.${loadedData.length + 1} Client Specification Requirements`
clientSpecSection(loaded) ==
    Heading(<<3, Len(loaded) + 1>>, t_Client_Specification_Requirements)

\* the numbered headings of section 3: the monolithic generateDocument writes
\* the loaded documents alone, the modular one appends the client
\* specification
generateTechnicalSpecifications(loaded) ==
    IF loader = "data-loader"
    THEN Append(specificationSections(loaded), clientSpecSection(loaded))
    ELSE specificationSections(loaded)

\* the numbered entries the table of contents gives section 3; only the
\* modular generateDocument has a table of contents
generateTableOfContents(loaded) ==
    IF loader = "data-loader"
    THEN Append(specificationSections(loaded), clientSpecSection(loaded))
    ELSE <<>>

\* Packer.toBuffer resolves: the then-callback writes CONFIG.outputFilename
PackerResolves ==
    /\ docPc = "packing"
    /\ artifact' = [state |-> "written",
                    headings |-> generateTechnicalSpecifications(loadedData),
                    contents |-> generateTableOfContents(loadedData)]
    /\ docPc' = "written"
    /\ UNCHANGED <<loader, useAutoDiscovery, outputDirExists, outputDir,
                   documentSections, loadedData, docWarnings>>

\* Packer.toBuffer rejects, or the write throws: the catch-callback logs the
\* error and rethrows it into a promise nobody awaits
PackerRejects ==
    /\ docPc = "packing"
    /\ docPc' = "unhandled rejection"
    /\ UNCHANGED <<loader, useAutoDiscovery, outputDirExists, outputDir,
                   documentSections, loadedData, docWarnings, artifact>>

DocNext == GenerateDocument \/ PackerResolves \/ PackerRejects

(***************************************************************************)
(* The callers of generateDocument (main.ts): main, once Promise.all has   *)
(* fulfilled, and regenerateDocumentOnly.  generateDocument returns void:  *)
(* the caller's next statement runs when it returns.                       *)
(***************************************************************************)

ReportInit ==
    /\ DocInit
    /\ mainPc \in { "awaiting", "regenerating" }
    /\ fetchers = [k \in Kinds |->
          [promise |-> "fulfilled", step |-> Len(Calls(k)) + 1, threw |-> FALSE]]
    /\ files = [k \in Kinds |-> "new"]
    /\ docInvoked = FALSE
    /\ exitCode = -1

\* main after `await Promise.all([...])`: generateDocument() and then
\* console.log('Process completed successfully!')
MainReportsCompleted ==
    /\ mainPc = "awaiting"
    /\ AllFulfilled(fetchers)
    /\ GenerateDocument
    /\ docInvoked' = TRUE
    /\ mainPc' = "completed"
    /\ UNCHANGED <<fetchers, files, exitCode>>

\* regenerateDocumentOnly: generateDocument() and then
\* console.log(`Document regenerated: ${CONFIG.outputFilename}`)
RegenerateDocumentOnly ==
    /\ mainPc = "regenerating"
    /\ GenerateDocument
    /\ docInvoked' = TRUE
    /\ mainPc' = "regenerated"
    /\ UNCHANGED <<fetchers, files, exitCode>>

ReportNext ==
    \/ MainReportsCompleted
    \/ RegenerateDocumentOnly
    \/ (PackerResolves /\ UNCHANGED mainVars)
    \/ (PackerRejects /\ UNCHANGED mainVars)
(***************************************************************************)
(* Firewall rules of the SQL server: ensureFirewallAccess and              *)
(* cleanupOldFirewallRules of DatabaseConnectionManager                    *)
(* (data-fetchers/database/00-connect-db.ts)                               *)
(*                                                                         *)
(* A rule name is the sequence of its hyphen-separated fields; a field is  *)
(* its leading decimal digits (num, -1 when it has none) followed by the   *)
(* rest of its text.  Time is counted in half hours.                       *)
(***************************************************************************)

Word(text) == [num |-> -1, text |-> text]
Digits(n)  == [num |-> n, text |-> ""]

\* `AutoRule-CAT-${Date.now()}`
AutoRuleName(time) == << Word("AutoRule"), Word("CAT"), Digits(time) >>

\* a plausible slip: the prefix cut short to 'AutoRule-'
startsWithAutoRule(name) ==
    /\ Len(name) >= 3
    /\ name[1] = Word("AutoRule")

\* rule.name.startsWith('AutoRule-CAT-')
startsWithAutoRuleCAT(name) ==
    /\ Len(name) >= 3
    /\ name[1] = Word("AutoRule")
    /\ name[2] = Word("CAT")

NaN == [nan |-> TRUE, value |-> 0]
Number(n) == [nan |-> FALSE, value |-> n]

\* parseInt: the leading digits of the text, NaN when there are none
parseInt(field) == IF field.num >= 0 THEN Number(field.num) ELSE NaN

\* parseInt(rule.name.split('-')[2] || '0')
ruleTimestampOf(name) ==
    IF name[3] = Word("") THEN Number(0) ELSE parseInt(name[3])

\* a < b on numbers: false when either is NaN
LessThan(a, b) == ~a.nan /\ ~b.nan /\ a.value < b.value

\* 60 * 60 * 1000 milliseconds, in half hours
OneHour == 2

\* the last reading of the clock the model reaches
MaxClock == 4

\* the public address of the machine the runs are made from, and another one
CurrentIP == "203.0.113.7"
OtherIP   == "203.0.113.9"

Rule(name, startIpAddress, endIpAddress) ==
    [name |-> name, startIpAddress |-> startIpAddress, endIpAddress |-> endIpAddress]

\* sqlClient.firewallRules.createOrUpdate: the rule of that name is replaced
createOrUpdate(rules, name, startIpAddress, endIpAddress) ==
    { rule \in rules : rule.name # name } \cup { Rule(name, startIpAddress, endIpAddress) }

\* sqlClient.firewallRules.delete
delete(rules, name) == { rule \in rules : rule.name # name }

\* a plausible slip: the rule looked up by name, not by its addresses
IsRuleForByName(rule, ip) == rule.name = <<Word(ip)>>

\* rule.startIpAddress === currentIP && rule.endIpAddress === currentIP
IsRuleFor(rule, ip) == rule.startIpAddress = ip /\ rule.endIpAddress = ip

Runs == { 1, 2 }

NotRun ==
    [pc |-> "idle", ruleName |-> <<>>, existingRule |-> FALSE, failed |-> {},
     existed |-> FALSE, created |-> FALSE, after |-> {}, rulesAtStart |-> {}]

NoCleanup ==
    [pc |-> "idle", currentTime |-> 0, oneHourAgo |-> 0, pending |-> {}, deleted |-> {}]

FirewallIdle ==
    /\ now = 0
    /\ serverRules = {}
    /\ ensure = [r \in Runs |-> NotRun]
    /\ cleanup = NoCleanup

\* the rules the server may hold before the runs
EnsureRuleCandidates ==
    { Rule(<<Word("office")>>, OtherIP, OtherIP),
      Rule(<<Word("range")>>, CurrentIP, OtherIP),
      Rule(<<Word("home")>>, CurrentIP, CurrentIP) }

EnsureInit ==
    /\ now = 0
    /\ serverRules \in SUBSET EnsureRuleCandidates
    /\ ensure = [r \in Runs |-> [NotRun EXCEPT !.pc = "start"]]
    /\ cleanup = NoCleanup

\* the clock advances
Tick ==
    /\ now < MaxClock
    /\ now' = now + 1
    /\ UNCHANGED <<serverRules, ensure, cleanup>>

Begun(r) ==
    [ensure[r] EXCEPT !.after = { q \in Runs : ensure[q].pc = "done" },
                      !.rulesAtStart = serverRules]

\* getCurrentPublicIP returns; without a subscription ID the run warns and
\* returns, otherwise it names its rule after the clock and lists the rules
GetCurrentPublicIPReturns(r) ==
    /\ ensure[r].pc = "start"
    /\ ensure' = [ensure EXCEPT ![r] =
          IF subscriptionId
          THEN [Begun(r) EXCEPT !.pc = "listing", !.ruleName = AutoRuleName(now)]
          ELSE [Begun(r) EXCEPT !.pc = "done"]]
    /\ UNCHANGED <<now, serverRules, cleanup>>

\* a plausible slip: getCurrentPublicIP awaited before the try block
GetCurrentPublicIPThrowsUncaught(r) ==
    /\ ensure[r].pc = "start"
    /\ ensure' = [ensure EXCEPT ![r] =
          [Begun(r) EXCEPT !.pc = "threw", !.failed = @ \cup {"getCurrentPublicIP"}]]
    /\ UNCHANGED <<now, serverRules, cleanup>>

\* both address services fail: the error lands in the outer catch
GetCurrentPublicIPThrows(r) ==
    /\ ensure[r].pc = "start"
    /\ ensure' = [ensure EXCEPT ![r] =
          [Begun(r) EXCEPT !.pc = "done", !.failed = @ \cup {"getCurrentPublicIP"}]]
    /\ UNCHANGED <<now, serverRules, cleanup>>

\* listByServer is read to its end or to the first rule for the address
ListByServerReturns(r) ==
    /\ ensure[r].pc = "listing"
    /\ LET found == \E rule \in serverRules : IsRuleFor(rule, CurrentIP) IN
       ensure' = [ensure EXCEPT ![r] =
          [@ EXCEPT !.existingRule = found,
                    !.existed = \E rule \in serverRules :
                                   rule.startIpAddress = CurrentIP /\ rule.endIpAddress = CurrentIP,
                    !.pc = IF found THEN "done" ELSE "creating"]]
    /\ UNCHANGED <<now, serverRules, cleanup>>

\* listByServer throws: the inner catch warns and existingRule stays null
ListByServerThrows(r) ==
    /\ ensure[r].pc = "listing"
    /\ ensure' = [ensure EXCEPT ![r] =
          [@ EXCEPT !.failed = @ \cup {"listByServer"},
                    !.existed = \E rule \in serverRules :
                                   rule.startIpAddress = CurrentIP /\ rule.endIpAddress = CurrentIP,
                    !.pc = "creating"]]
    /\ UNCHANGED <<now, serverRules, cleanup>>

\* createOrUpdate returns
CreateOrUpdateReturns(r) ==
    /\ ensure[r].pc = "creating"
    /\ serverRules' = createOrUpdate(serverRules, ensure[r].ruleName, CurrentIP, CurrentIP)
    /\ ensure' = [ensure EXCEPT ![r] = [@ EXCEPT !.created = TRUE, !.pc = "done"]]
    /\ UNCHANGED <<now, cleanup>>

\* a plausible slip: the error of createOrUpdate left to propagate
CreateOrUpdateThrowsUncaught(r) ==
    /\ ensure[r].pc = "creating"
    /\ ensure' = [ensure EXCEPT ![r] =
          [@ EXCEPT !.failed = @ \cup {"createOrUpdate"}, !.pc = "threw"]]
    /\ UNCHANGED <<now, serverRules, cleanup>>

\* createOrUpdate throws: the outer catch logs and the run returns
CreateOrUpdateThrows(r) ==
    /\ ensure[r].pc = "creating"
    /\ ensure' = [ensure EXCEPT ![r] =
          [@ EXCEPT !.failed = @ \cup {"createOrUpdate"}, !.pc = "done"]]
    /\ UNCHANGED <<now, serverRules, cleanup>>

EnsureFirewallAccess(r) ==
    \/ GetCurrentPublicIPReturns(r)
    \/ GetCurrentPublicIPThrows(r)
    \/ ListByServerReturns(r)
    \/ ListByServerThrows(r)
    \/ CreateOrUpdateReturns(r)
    \/ CreateOrUpdateThrows(r)

EnsureNext == Tick \/ \E r \in Runs : EnsureFirewallAccess(r)

(***************************************************************************)
(* cleanupOldFirewallRules                                                 *)
(***************************************************************************)

\* the rules the server may hold before cleanup: auto-generated rules of
\* several ages, and rules whose names differ from theirs in one place
CleanupRuleCandidates ==
    { Rule(AutoRuleName(time), CurrentIP, CurrentIP) : time \in { 0, 1, OneHour, OneHour + 1 } }
    \cup
    { Rule(name, OtherIP, OtherIP) :
        name \in { << Word("office") >>,
                   << Word("AutoRule"), Word("CAT") >>,
                   << Word("AutoRule"), Word("CAT"), Word("") >>,
                   << Word("AutoRule"), Word("CAT"), Word("manual") >>,
                   << Word("AutoRule"), Word("CATS"), Digits(0) >>,
                   << Word("Rule"), Word("CAT"), Digits(0) >> } }

\* the most rules the server holds before cleanup
MaxRules == 3

CleanupInit ==
    /\ now \in 0..MaxClock
    /\ serverRules \in { rules \in SUBSET CleanupRuleCandidates : Cardinality(rules) <= MaxRules }
    /\ ensure = [r \in Runs |-> NotRun]
    /\ cleanup = [NoCleanup EXCEPT !.pc = "start"]

\* cleanupOldFirewallRules up to its first await: without a subscription ID
\* it returns, otherwise it reads the clock
CleanupStart ==
    /\ cleanup.pc = "start"
    /\ cleanup' =
          IF subscriptionId
          THEN [cleanup EXCEPT !.pc = "listing", !.currentTime = now,
                               !.oneHourAgo = now - OneHour]
          ELSE [cleanup EXCEPT !.pc = "done"]
    /\ UNCHANGED <<now, serverRules, ensure>>

\* the iteration of listByServer receives the rules
CleanupListReturns ==
    /\ cleanup.pc = "listing"
    /\ cleanup' = [cleanup EXCEPT !.pending = serverRules,
                                  !.pc = IF serverRules = {} THEN "done" ELSE "iterating"]
    /\ UNCHANGED <<now, serverRules, ensure>>

\* listByServer throws: the outer catch warns
CleanupListThrows ==
    /\ cleanup.pc = "listing"
    /\ cleanup' = [cleanup EXCEPT !.pc = "done"]
    /\ UNCHANGED <<now, serverRules, ensure>>

\* the loop body decides to delete the rule
IsOldAutoRule(rule) ==
    /\ startsWithAutoRuleCAT(rule.name)
    /\ LessThan(ruleTimestampOf(rule.name), Number(cleanup.oneHourAgo))

Visited(rule) ==
    [cleanup EXCEPT !.pending = @ \ {rule},
                    !.pc = IF cleanup.pending = {rule} THEN "done" ELSE "iterating"]

\* the loop passes over a rule it does not delete
CleanupKeeps(rule) ==
    /\ cleanup.pc = "iterating"
    /\ rule \in cleanup.pending
    /\ ~IsOldAutoRule(rule)
    /\ cleanup' = Visited(rule)
    /\ UNCHANGED <<now, serverRules, ensure>>

\* the loop deletes a rule
CleanupDeleteReturns(rule) ==
    /\ cleanup.pc = "iterating"
    /\ rule \in cleanup.pending
    /\ IsOldAutoRule(rule)
    /\ serverRules' = delete(serverRules, rule.name)
    /\ cleanup' = [Visited(rule) EXCEPT !.deleted = @ \cup {rule.name}]
    /\ UNCHANGED <<now, ensure>>

\* the delete throws: the inner catch warns and the loop goes on
CleanupDeleteThrows(rule) ==
    /\ cleanup.pc = "iterating"
    /\ rule \in cleanup.pending
    /\ IsOldAutoRule(rule)
    /\ cleanup' = Visited(rule)
    /\ UNCHANGED <<now, serverRules, ensure>>

CleanupOldFirewallRules ==
    \/ CleanupStart
    \/ CleanupListReturns
    \/ CleanupListThrows
    \/ \E rule \in cleanup.pending :
          \/ CleanupKeeps(rule)
          \/ CleanupDeleteReturns(rule)
          \/ CleanupDeleteThrows(rule)

CleanupNext == Tick \/ CleanupOldFirewallRules

(***************************************************************************)
(* ensureFirewallAccess followed by cleanupOldFirewallRules                *)
(***************************************************************************)

\* the rules the server may hold before the run: an auto-generated rule for
\* the address left by a run at time 0, a hand-made rule for it, and a rule
\* for another address
EnsureThenCleanupRuleCandidates ==
    { Rule(AutoRuleName(0), CurrentIP, CurrentIP),
      Rule(<<Word("home")>>, CurrentIP, CurrentIP),
      Rule(<<Word("office")>>, OtherIP, OtherIP) }

EnsureThenCleanupInit ==
    /\ now \in 0..MaxClock
    /\ serverRules \in SUBSET EnsureThenCleanupRuleCandidates
    /\ ensure = [r \in Runs |-> IF r = 1 THEN [NotRun EXCEPT !.pc = "start"] ELSE NotRun]
    /\ cleanup = NoCleanup

\* the caller awaits ensureFirewallAccess and then calls
\* cleanupOldFirewallRules
CleanupCalled ==
    /\ ensure[1].pc = "done"
    /\ cleanup.pc = "idle"
    /\ cleanup' = [cleanup EXCEPT !.pc = "start"]
    /\ UNCHANGED <<now, serverRules, ensure>>

EnsureThenCleanupNext ==
    \/ Tick
    \/ EnsureFirewallAccess(1)
    \/ CleanupCalled
    \/ CleanupOldFirewallRules
(***************************************************************************)
(* Redis SKU details: getSkuDetails (data-fetchers/azure/03-redis.ts)      *)
(*                                                                         *)
(* An optional argument is a record: undefined, or a value.                *)
(***************************************************************************)

Absent == [undefined |-> TRUE, value |-> ""]
Str(s) == [undefined |-> FALSE, value |-> s]
AbsentNumber == [undefined |-> TRUE, value |-> 0]
Num(n) == [undefined |-> FALSE, value |-> n]

\* !s for an optional string: undefined and '' are falsy
NotString(s) == s.undefined \/ s.value = ""

SkuDetails(memory, connections) == [memory |-> memory, connections |-> connections]

\* the switch of the Basic and of the Standard tier, by capacity 0..6
TierC ==
    << SkuDetails(<<"250 MB">>, "Up to 256"),
       SkuDetails(<<"1 GB">>, "Up to 1,000"),
       SkuDetails(<<"2.5 GB">>, "Up to 2,000"),
       SkuDetails(<<"6 GB">>, "Up to 5,000"),
       SkuDetails(<<"13 GB">>, "Up to 10,000"),
       SkuDetails(<<"26 GB">>, "Up to 15,000"),
       SkuDetails(<<"53 GB">>, "Up to 20,000") >>

\* the switch of the Premium tier, by capacity 1..5
TierP ==
    << SkuDetails(<<"6 GB">>, "Up to 7,500"),
       SkuDetails(<<"13 GB">>, "Up to 15,000"),
       SkuDetails(<<"26 GB">>, "Up to 30,000"),
       SkuDetails(<<"53 GB">>, "Up to 40,000"),
       SkuDetails(<<"120 GB">>, "Up to 40,000") >>

\* `${skuName} ${skuFamily}${skuCapacity}`
SkuLabel(name, family, capacity) == << name, " ", family, ToString(capacity) >>

\* a plausible slip: !skuCapacity in place of skuCapacity === undefined
getSkuDetailsFalsyCapacity(skuName, skuFamily, skuCapacity) ==
    IF NotString(skuName) \/ NotString(skuFamily) \/ skuCapacity.undefined
       \/ skuCapacity.value = 0
    THEN SkuDetails(<<"-">>, "-")
    ELSE LET name == skuName.value
             family == skuFamily.value
             capacity == skuCapacity.value
         IN  IF family = "C" /\ name \in {"Basic", "Standard"} /\ capacity \in 0..6
             THEN TierC[capacity + 1]
             ELSE IF family = "P" /\ name = "Premium" /\ capacity \in 1..5
             THEN TierP[capacity]
             ELSE SkuDetails(SkuLabel(name, family, capacity), "-")

getSkuDetails(skuName, skuFamily, skuCapacity) ==
    IF NotString(skuName) \/ NotString(skuFamily) \/ skuCapacity.undefined
    THEN SkuDetails(<<"-">>, "-")
    ELSE LET name == skuName.value
             family == skuFamily.value
             capacity == skuCapacity.value
         IN  IF family = "C" /\ name = "Basic" /\ capacity \in 0..6
             THEN TierC[capacity + 1]
             ELSE IF family = "C" /\ name = "Standard" /\ capacity \in 0..6
             THEN TierC[capacity + 1]
             ELSE IF family = "P" /\ name = "Premium" /\ capacity \in 1..5
             THEN TierP[capacity]
             ELSE SkuDetails(SkuLabel(name, family, capacity), "-")

\* the largest capacity the model hands to getSkuDetails
MaxCapacity == 7

SkuNames    == { Absent, Str(""), Str("Basic"), Str("Standard"), Str("Premium"),
                 Str("Enterprise") }
SkuFamilies == { Absent, Str(""), Str("C"), Str("P"), Str("E") }
SkuCapacities == { AbsentNumber } \cup { Num(n) : n \in 0..MaxCapacity }

NoSkuDetails == SkuDetails(<<>>, "")

\* an optional string whose characters the code inspects
AbsentText == [undefined |-> TRUE, value |-> <<>>]
Text(s) == [undefined |-> FALSE, value |-> s]

SlaIdle ==
    /\ storage = [sku |-> AbsentText, accessTier |-> Absent]
    /\ slaValue = ""
    /\ slaPc = "idle"

RedisSkuIdle ==
    /\ sku = [name |-> Absent, family |-> Absent, capacity |-> AbsentNumber]
    /\ skuDetails = NoSkuDetails
    /\ skuPc = "idle"

SkuIdle == RedisSkuIdle /\ SlaIdle

SkuInit ==
    /\ sku \in [name : SkuNames, family : SkuFamilies, capacity : SkuCapacities]
    /\ skuDetails = NoSkuDetails
    /\ skuPc = "call"
    /\ SlaIdle

\* const skuDetails = getSkuDetails(sku?.name, sku?.family, sku?.capacity)
GetSkuDetails ==
    /\ skuPc = "call"
    /\ skuDetails' = getSkuDetails(sku.name, sku.family, sku.capacity)
    /\ skuPc' = "done"
    /\ UNCHANGED <<sku, storage, slaValue, slaPc>>

(***************************************************************************)
(* Storage SLA: getStorageSLA (data-fetchers/azure/02-storage.ts)          *)
(***************************************************************************)

s_Standard == <<"S","t","a","n","d","a","r","d">>
s_Premium  == <<"P","r","e","m","i","u","m">>
s_GRS      == <<"G","R","S">>
s_RAGRS    == <<"R","A","G","R","S">>
s_LRS      == <<"L","R","S">>
s_ZRS      == <<"Z","R","S">>
s_GZRS     == <<"G","Z","R","S">>
s_RAGZRS   == <<"R","A","G","Z","R","S">>
s_Basic    == <<"B","a","s","i","c">>

\* `${tier}_${redundancy}`, the shape of a storage SKU name
StorageSkuName(tier, redundancy) == tier \o <<"_">> \o redundancy

\* !sku for an optional string: undefined and '' are falsy
NotText(s) == s.undefined \/ s.value = <<>>

\* accessTier === literal
TierIs(accessTier, literal) == ~accessTier.undefined /\ accessTier.value = literal

\* a plausible slip: sku === undefined in place of !sku
getStorageSLAUndefinedOnly(storageSku, accessTier) ==
    IF storageSku.undefined THEN "-"
    ELSE IF TierIs(accessTier, "Hot") THEN "99.9%"
    ELSE IF TierIs(accessTier, "Cool") THEN "99.0%"
    ELSE "99.5% - 99.9%"

getStorageSLA(storageSku, accessTier) ==
    IF NotText(storageSku) THEN "-"
    ELSE IF TierIs(accessTier, "Hot")
         THEN IF includes(storageSku.value, s_GRS) \/ includes(storageSku.value, s_RAGRS)
              THEN "99.9%"
              ELSE "99.9%"
    ELSE IF TierIs(accessTier, "Cool") THEN "99.0%"
    ELSE IF includes(storageSku.value, s_Standard) THEN "99.5% - 99.9%"
    ELSE "99.5% - 99.9%"

StorageSkus ==
    { AbsentText, Text(<<>>), Text(s_Basic) }
      \cup { Text(StorageSkuName(s_Standard, r)) :
                r \in {s_LRS, s_GRS, s_RAGRS, s_ZRS, s_GZRS, s_RAGZRS} }
      \cup { Text(StorageSkuName(s_Premium, r)) : r \in {s_LRS, s_ZRS} }

AccessTiers == { Absent, Str(""), Str("Hot"), Str("Cool"), Str("Cold"), Str("Premium") }

SlaInit ==
    /\ storage \in [sku : StorageSkus, accessTier : AccessTiers]
    /\ slaValue = ""
    /\ slaPc = "call"
    /\ RedisSkuIdle

\* const slaValue = getStorageSLA(account.sku?.name, account.accessTier)
GetStorageSLA ==
    /\ slaPc = "call"
    /\ slaValue' = getStorageSLA(storage.sku, storage.accessTier)
    /\ slaPc' = "done"
    /\ UNCHANGED <<storage, sku, skuDetails, skuPc>>

(***************************************************************************)
(* The dbManager singleton (database/00-connect-db.ts) and the operations  *)
(* on it (database/01-query-default-config.ts).  An operation is a call of *)
(* fetchAndSaveDefaultConfiguration or of queryConfigurationByPattern; its *)
(* connect runs ensureFirewallAccess as run r of the firewall section.     *)
(* An action is one continuation: the code from one settled await to the   *)
(* next await.                                                             *)
(***************************************************************************)

Operations == { "fetchAndSaveDefaultConfiguration", "queryConfigurationByPattern" }

\* pool objects are numbered as sql.connect hands them out
PoolIds == 1..Cardinality(Runs)

NotEstablished == "Database connection not established. Call connect() first."

NotCalled ==
    [fn |-> "none", pc |-> "idle", connectAttempted |-> FALSE, queryPool |-> 0,
     closing |-> 0, disconnectCalled |-> FALSE, error |-> ""]

DbIdle ==
    /\ pool = 0
    /\ poolObjects = <<>>
    /\ operation = [r \in Runs |-> NotCalled]

\* the rules the server holds before the operations
DbRuleCandidates ==
    { Rule(<<Word("office")>>, OtherIP, OtherIP),
      Rule(<<Word("home")>>, CurrentIP, CurrentIP) }

DbInit ==
    /\ now = 0
    /\ serverRules \in { {}, DbRuleCandidates }
    /\ ensure = [r \in Runs |-> NotRun]
    /\ cleanup = NoCleanup
    /\ pool = 0
    /\ poolObjects = <<>>
    /\ operation \in [Runs -> { [NotCalled EXCEPT !.fn = f, !.pc = "call"] : f \in Operations }]

\* the operation calls dbManager.connect, which logs and awaits
\* ensureFirewallAccess
ConnectCalled(r) ==
    /\ operation[r].pc = "call"
    /\ operation' = [operation EXCEPT ![r].pc = "ensuring"]
    /\ ensure' = [ensure EXCEPT ![r].pc = "start"]
    /\ UNCHANGED <<now, serverRules, cleanup, pool, poolObjects>>

\* a run of ensureFirewallAccess inside connect
EnsureInConnect(r) ==
    /\ operation[r].pc = "ensuring"
    /\ EnsureFirewallAccess(r)
    /\ UNCHANGED dbVars

\* a plausible slip: disconnect at the end of the try block, so that an
\* operation that failed returns without it
DisconnectOnSuccessOnly(r, error) ==
    IF error = "" /\ pool # 0
    THEN operation' = [operation EXCEPT ![r].pc = "closing", ![r].closing = pool,
                                        ![r].disconnectCalled = TRUE, ![r].error = error]
    ELSE operation' = [operation EXCEPT ![r].pc = "settled",
                                        ![r].disconnectCalled = (error = ""),
                                        ![r].error = error]

\* the rest of the operation once its try block is left with the given
\* error ("" when it ran to its end): the catch block logs and rethrows, and
\* the finally block calls dbManager.disconnect, which closes this.pool when
\* there is one
Disconnect(r, error) ==
    IF pool # 0
    THEN operation' = [operation EXCEPT ![r].pc = "closing", ![r].closing = pool,
                                        ![r].disconnectCalled = TRUE, ![r].error = error]
    ELSE operation' = [operation EXCEPT ![r].pc = "settled",
                                        ![r].disconnectCalled = TRUE, ![r].error = error]

\* ensureFirewallAccess has settled: connect goes on to sql.connect when it
\* resolved; had it rejected, the catch block of connect would rethrow
ConnectAfterEnsure(r) ==
    /\ operation[r].pc = "ensuring"
    /\ ensure[r].pc \in { "done", "threw" }
    /\ IF ensure[r].pc = "done"
       THEN operation' = [operation EXCEPT ![r].pc = "connecting",
                                           ![r].connectAttempted = TRUE]
       ELSE Disconnect(r, "ensureFirewallAccess")
    /\ UNCHANGED <<firewallVars, pool, poolObjects>>

\* sql.connect resolves with the open pool it holds already or with a new
\* pool object, and connect stores it in this.pool
SqlConnectResolves(r) ==
    /\ operation[r].pc = "connecting"
    /\ \/ \E p \in DOMAIN poolObjects :
            /\ poolObjects[p] = "open"
            /\ pool' = p
            /\ UNCHANGED poolObjects
       \/ /\ Len(poolObjects) < Cardinality(PoolIds)
          /\ poolObjects' = Append(poolObjects, "open")
          /\ pool' = Len(poolObjects) + 1
    /\ operation' = [operation EXCEPT ![r].pc = "connected"]
    /\ UNCHANGED firewallVars

\* sql.connect rejects: connect logs and rethrows
SqlConnectRejects(r) ==
    /\ operation[r].pc = "connecting"
    /\ Disconnect(r, "sql.connect")
    /\ UNCHANGED <<firewallVars, pool, poolObjects>>

\* executeQuery (executeParameterizedQuery in queryConfigurationByPattern):
\* without a pool it throws, otherwise it sends the query to this.pool
ExecuteQuery(r) ==
    /\ operation[r].pc = "connected"
    /\ IF pool = 0
       THEN Disconnect(r, NotEstablished)
       ELSE operation' = [operation EXCEPT ![r].pc = "querying", ![r].queryPool = pool]
    /\ UNCHANGED <<firewallVars, pool, poolObjects>>

\* the query returns its records from an open pool; fetchAndSaveDefault-
\* Configuration then writes its two files, which may throw
QueryResolves(r) ==
    /\ operation[r].pc = "querying"
    /\ poolObjects[operation[r].queryPool] = "open"
    /\ \E writeThrows \in
            IF operation[r].fn = "fetchAndSaveDefaultConfiguration" THEN BOOLEAN ELSE { FALSE } :
          Disconnect(r, IF writeThrows THEN "writeFileSync" ELSE "")
    /\ UNCHANGED <<firewallVars, pool, poolObjects>>

\* the query fails: executeQuery logs and rethrows
QueryRejects(r) ==
    /\ operation[r].pc = "querying"
    /\ Disconnect(r, "query")
    /\ UNCHANGED <<firewallVars, pool, poolObjects>>

\* this.pool.close() resolves: the pool object is closed and this.pool is
\* set to null
CloseResolves(r) ==
    /\ operation[r].pc = "closing"
    /\ poolObjects' = [poolObjects EXCEPT ![operation[r].closing] = "closed"]
    /\ pool' = 0
    /\ operation' = [operation EXCEPT ![r].pc = "settled"]
    /\ UNCHANGED firewallVars

\* this.pool.close() rejects: disconnect warns and this.pool stays
CloseRejects(r) ==
    /\ operation[r].pc = "closing"
    /\ operation' = [operation EXCEPT ![r].pc = "settled"]
    /\ UNCHANGED <<firewallVars, pool, poolObjects>>

DbNext ==
    \E r \in Runs :
        \/ ConnectCalled(r)
        \/ EnsureInConnect(r)
        \/ ConnectAfterEnsure(r)
        \/ SqlConnectResolves(r)
        \/ SqlConnectRejects(r)
        \/ ExecuteQuery(r)
        \/ QueryResolves(r)
        \/ QueryRejects(r)
        \/ CloseResolves(r)
        \/ CloseRejects(r)
(***************************************************************************)
(* Specifications                                                          *)
(***************************************************************************)

vars == <<envVars, nameVars, tableVars, subscriptionId, fetchVars, mainVars, docVars, firewallVars, skuVars, dbVars>>

InitEnv == EnvInit /\ NameIdle /\ TableIdle /\ subscriptionId = FALSE /\ FetchIdle /\ MainIdle /\ DocIdle /\ FirewallIdle /\ SkuIdle /\ DbIdle

NextEnv ==
    GetEnvironmentFromName /\ UNCHANGED <<nameVars, tableVars, subscriptionId, fetchVars, mainVars, docVars, firewallVars, skuVars, dbVars>>

\* detectEnvironment applied to every name of ResourceNameInputs
SpecEnv == InitEnv /\ [][NextEnv]_vars

InitNames == NameInit /\ EnvIdle /\ TableIdle /\ subscriptionId = FALSE /\ FetchIdle /\ MainIdle /\ DocIdle /\ FirewallIdle /\ SkuIdle /\ DbIdle

NextNames ==
    /\ \/ GetResourceNames
       \/ \E resourceType \in ResourceTypes : GetResourceGroup(resourceType)
    /\ UNCHANGED <<envVars, tableVars, subscriptionId, fetchVars, mainVars, docVars, firewallVars, skuVars, dbVars>>

\* getResourceNames and getResourceGroup applied to every base name and
\* override setting
SpecNames == InitNames /\ [][NextNames]_vars

InitTable == TableInit /\ EnvIdle /\ NameIdle /\ subscriptionId = FALSE /\ FetchIdle /\ MainIdle /\ DocIdle /\ FirewallIdle /\ SkuIdle /\ DbIdle

NextTable ==
    GenerateSpecificationTable
      /\ UNCHANGED <<envVars, nameVars, subscriptionId, fetchVars, mainVars, docVars, firewallVars, skuVars, dbVars>>

\* generateSpecificationTable applied to every record list of SpecificationDatas
SpecTable == InitTable /\ [][NextTable]_vars

InitFetcher == FetchInit /\ EnvIdle /\ NameIdle /\ TableIdle /\ MainIdle /\ DocIdle /\ FirewallIdle /\ SkuIdle /\ DbIdle

NextFetcher == FetcherNext /\ UNCHANGED <<envVars, nameVars, tableVars, mainVars, docVars, firewallVars, skuVars, dbVars>>

\* one call of one fetcher, under every outcome of its API calls
SpecFetcher == InitFetcher /\ [][NextFetcher]_vars

InitDoc ==
    /\ DocInit /\ EnvIdle /\ NameIdle /\ TableIdle /\ subscriptionId = FALSE
    /\ FetchIdle /\ MainIdle /\ FirewallIdle /\ SkuIdle /\ DbIdle

NextDoc ==
    /\ DocNext
    /\ UNCHANGED <<envVars, nameVars, tableVars, subscriptionId, fetchVars, mainVars,
                   firewallVars, skuVars, dbVars>>

\* one run of generateDocument, for every output directory and configuration
SpecDoc == InitDoc /\ [][NextDoc]_vars

InitEnsure ==
    /\ EnsureInit /\ subscriptionId \in BOOLEAN
    /\ EnvIdle /\ NameIdle /\ TableIdle /\ FetchIdle /\ MainIdle /\ DocIdle /\ SkuIdle /\ DbIdle

NextEnsure ==
    /\ EnsureNext
    /\ UNCHANGED <<envVars, nameVars, tableVars, subscriptionId, fetchVars, mainVars, docVars, skuVars, dbVars>>

\* two runs of ensureFirewallAccess from one address, under every
\* interleaving and every outcome of their calls
SpecEnsure == InitEnsure /\ [][NextEnsure]_vars

InitCleanup ==
    /\ CleanupInit /\ subscriptionId \in BOOLEAN
    /\ EnvIdle /\ NameIdle /\ TableIdle /\ FetchIdle /\ MainIdle /\ DocIdle /\ SkuIdle /\ DbIdle

NextCleanup ==
    /\ CleanupNext
    /\ UNCHANGED <<envVars, nameVars, tableVars, subscriptionId, fetchVars, mainVars, docVars, skuVars, dbVars>>

\* one run of cleanupOldFirewallRules over every set of rules, at every time
SpecCleanup == InitCleanup /\ [][NextCleanup]_vars

InitSku ==
    /\ SkuInit /\ subscriptionId = FALSE
    /\ EnvIdle /\ NameIdle /\ TableIdle /\ FetchIdle /\ MainIdle /\ DocIdle /\ FirewallIdle
    /\ DbIdle

NextSku ==
    /\ GetSkuDetails
    /\ UNCHANGED <<envVars, nameVars, tableVars, subscriptionId, fetchVars, mainVars, docVars,
                   firewallVars, dbVars>>

\* getSkuDetails applied to every SKU of the input sets
SpecSku == InitSku /\ [][NextSku]_vars

InitSla ==
    /\ SlaInit /\ subscriptionId = FALSE
    /\ EnvIdle /\ NameIdle /\ TableIdle /\ FetchIdle /\ MainIdle /\ DocIdle /\ FirewallIdle
    /\ DbIdle

NextSla ==
    /\ GetStorageSLA
    /\ UNCHANGED <<envVars, nameVars, tableVars, subscriptionId, fetchVars, mainVars, docVars,
                   firewallVars, dbVars>>

\* getStorageSLA applied to every (SKU, access tier) pair of the input sets
SpecSla == InitSla /\ [][NextSla]_vars

InitReport ==
    /\ ReportInit /\ subscriptionId = TRUE
    /\ EnvIdle /\ NameIdle /\ TableIdle /\ FetchIdle /\ FirewallIdle /\ SkuIdle /\ DbIdle

NextReport ==
    /\ ReportNext
    /\ UNCHANGED <<envVars, nameVars, tableVars, subscriptionId, fetchVars, firewallVars,
                   skuVars, dbVars>>

\* generateDocument called by main and by regenerateDocumentOnly, for every
\* output directory and configuration
SpecReport == InitReport /\ [][NextReport]_vars

InitEnsureThenCleanup ==
    /\ EnsureThenCleanupInit /\ subscriptionId \in BOOLEAN
    /\ EnvIdle /\ NameIdle /\ TableIdle /\ FetchIdle /\ MainIdle /\ DocIdle /\ SkuIdle /\ DbIdle

NextEnsureThenCleanup ==
    /\ EnsureThenCleanupNext
    /\ UNCHANGED <<envVars, nameVars, tableVars, subscriptionId, fetchVars, mainVars, docVars,
                   skuVars, dbVars>>

\* one run of ensureFirewallAccess and then one of cleanupOldFirewallRules,
\* at every time and with every outcome of their calls
SpecEnsureThenCleanup == InitEnsureThenCleanup /\ [][NextEnsureThenCleanup]_vars

InitDb ==
    /\ DbInit /\ subscriptionId \in BOOLEAN
    /\ EnvIdle /\ NameIdle /\ TableIdle /\ FetchIdle /\ MainIdle /\ DocIdle /\ SkuIdle

NextDb ==
    /\ DbNext
    /\ UNCHANGED <<envVars, nameVars, tableVars, subscriptionId, fetchVars, mainVars, docVars,
                   skuVars>>

\* two operations on the dbManager singleton, under every interleaving and
\* every outcome of their calls
SpecDb == InitDb /\ [][NextDb]_vars

Init == MainInit /\ EnvIdle /\ NameIdle /\ TableIdle /\ FetchIdle /\ DocIdle /\ FirewallIdle /\ SkuIdle /\ DbIdle

Next == MainNext /\ UNCHANGED <<envVars, nameVars, tableVars, fetchVars, docVars, firewallVars, skuVars, dbVars>>

\* one run of main, under every interleaving of the five fetchers
Spec == Init /\ [][Next]_vars

\* the catch block of main runs once Promise.all has rejected
SpecLive == Spec /\ WF_mainVars(MainCatch)

(***************************************************************************)
(* C1: the section groups of the specification table                       *)
(***************************************************************************)

RECURSIVE GroupsFrom(_)
\* the merged groups a reader sees in the data rows: each section cell
\* spans the rowSpan rows that start with it
GroupsFrom(rows) ==
    IF rows = <<>> THEN <<>>
    ELSE LET n == IF Head(rows).rowSpan < 1 THEN 1
                  ELSE IF Head(rows).rowSpan > Len(rows) THEN Len(rows)
                  ELSE Head(rows).rowSpan
         IN <<[section |-> Head(rows).sectionName,
               titles |-> [i \in 1..n |-> rows[i].title]]>>
              \o GroupsFrom(SubSeq(rows, n + 1, Len(rows)))

RenderedGroups == GroupsFrom(SelectSeq(table.rows, LAMBDA r : r.kind = "data"))

RECURSIVE RunsOf(_)
\* the maximal runs of consecutive records with equal section
RunsOf(items) ==
    IF items = <<>> THEN <<>>
    ELSE LET same == { n \in 1..Len(items) :
                         \A i \in 1..n : items[i].section = items[1].section }
             n == CHOOSE m \in same : \A k \in same : k <= m
         IN <<[section |-> items[1].section,
               titles |-> [i \in 1..n |-> items[i].title]]>>
              \o RunsOf(SubSeq(items, n + 1, Len(items)))

TableRendered == tablePc = "done" /\ ~table.threw /\ Len(data) > 0

OrdinarySections ==
    \A i \in 1..Len(data) : ~IsArrayIndex(data[i].section) /\ ~IsInherited(data[i].section)

\* C1 as claimed: one group per maximal run of consecutive records with
\* equal section, so that sections [A, A, B, A] give three groups (stated
\* for ordinary section names)
C1_GroupPerRun == (TableRendered /\ OrdinarySections) => RenderedGroups = RunsOf(data)

FirstIndexOf(sec) == CHOOSE i \in 1..Len(data) :
    data[i].section = sec /\ \A j \in 1..(i - 1) : data[j].section # sec

\* the order Object.entries gives two distinct section names
EntryPrecedes(a, b) ==
    IF IsArrayIndex(a) /\ IsArrayIndex(b) THEN IndexValue(a) < IndexValue(b)
    ELSE IF IsArrayIndex(a) # IsArrayIndex(b) THEN IsArrayIndex(a)
    ELSE FirstIndexOf(a) < FirstIndexOf(b)

TitlesOf(sec) ==
    LET own == SelectSeq(data, LAMBDA r : r.section = sec)
    IN [i \in 1..Len(own) |-> own[i].title]

\* C1 amended: the table holds one row-spanned group per distinct section
\* value, with all records of that section in stored order whether or not
\* they are consecutive, the groups in the order of Object.entries (first
\* occurrence, array-index names first); a section named like an inherited
\* Object member makes the call throw instead
C1_GroupPerSection ==
    /\ tablePc = "done" =>
          (table.threw <=> \E i \in 1..Len(data) : IsInherited(data[i].section))
    /\ TableRendered =>
          LET g == RenderedGroups IN
          /\ \A i \in 1..Len(g) : g[i].titles = TitlesOf(g[i].section)
          /\ { g[i].section : i \in 1..Len(g) } = { data[i].section : i \in 1..Len(data) }
          /\ \A i, j \in 1..Len(g) : i < j =>
                /\ g[i].section # g[j].section
                /\ EntryPrecedes(g[i].section, g[j].section)
          /\ Len(table.rows) = Len(data) + 1

\* C1 witness: sections [A, A, B, A] rendered as A(3 rows), B(1 row)
C1_Witness ==
    /\ TableRendered
    /\ [i \in 1..Len(data) |-> data[i].section] = <<"A", "A", "B", "A">>
    /\ RenderedGroups = << [section |-> "A", titles |-> <<1, 2, 4>>],
                           [section |-> "B", titles |-> <<3>>] >>

(***************************************************************************)
(* C7: detectEnvironment                                                   *)
(***************************************************************************)

\* the same letter, whatever its case
SameLetter(a, b) ==
    \/ a = b
    \/ \E c \in DOMAIN LowerOf : (a = c /\ b = LowerOf[c]) \/ (b = c /\ a = LowerOf[c])

\* word occurs in name, compared without regard to case
OccursIn(word, name) ==
    \E i \in 0..(Len(name) - Len(word)) :
        \A j \in 1..Len(word) : SameLetter(name[i + j], word[j])

ExpectedEnvironment(name) ==
    IF OccursIn(s_prod, name) THEN "prod"
    ELSE IF OccursIn(s_test, name) THEN "test"
    ELSE "unknown"

\* C7: detectEnvironment is total and case-insensitive: the production tag
\* ('prod', displayed as 'Production') whenever the name contains 'prod',
\* also next to 'test'; the test tag when it contains 'test' and no 'prod';
\* unknown otherwise; and the three documented examples
C7_DetectEnvironment ==
    /\ detectedEnv \in { "none", "idle", "prod", "test", "unknown" }
    /\ detectedEnv \notin { "none", "idle" } =>
          /\ detectedEnv = ExpectedEnvironment(resourceName)
          /\ envDisplayName =
                (CASE detectedEnv = "prod" -> "Production"
                   [] detectedEnv = "test" -> "Test"
                   [] OTHER -> "Unknown")
          /\ resourceName = s_batchline_orbia \o s_dtest => detectedEnv = "test"
          /\ resourceName = s_batchline_orbia \o s_dprod \o s_legacy => detectedEnv = "prod"
          /\ resourceName = s_batchline_orbia => detectedEnv = "unknown"

\* C7 witness: a name with 'test' and a capitalised 'PROD' is production
C7_Witness ==
    /\ detectedEnv = "prod"
    /\ envDisplayName = "Production"
    /\ includes(resourceName, s_test)
    /\ includes(resourceName, <<"P","R","O","D">>)
    /\ ~includes(resourceName, s_prod)

(***************************************************************************)
(* C10: getResourceNames without overrides                                 *)
(***************************************************************************)

NoNameOverride == \A k \in NameOverrideKeys : processEnv[k] = Undefined

WithoutHyphens(s) == SelectSeq(s, LAMBDA c : c # "-")

\* C10: with no override set every name derives from the base name, the
\* storage account name being the base without any hyphen, lowercased
C10_DefaultNames ==
    (namePc = "done" /\ NoNameOverride) =>
        /\ resources.resourceGroupName = baseResourceName
        /\ resources.webAppName = baseResourceName \o s_legacy
        /\ resources.legacyPlanName = baseResourceName \o s_legacy
        /\ resources.sqlServerName = baseResourceName
        /\ resources.sqlDatabaseName = baseResourceName \o s_legacy
        /\ resources.redisCacheName = baseResourceName
        /\ resources.storageAccountName = WithoutHyphens(baseResourceName)
        /\ \A i \in 1..Len(resources.storageAccountName) :
              resources.storageAccountName[i] \notin DOMAIN LowerOf \cup { "-" }
        /\ baseResourceName = <<"b","a","t","c","h","l","i","n","e","-","o","r","b","i","a","-","t","e","s","t">>
              => resources.storageAccountName =
                   <<"b","a","t","c","h","l","i","n","e","o","r","b","i","a","t","e","s","t">>

\* C10 witness: base 'batchline-orbia-test' resolved with no override
C10_Witness ==
    /\ namePc = "done"
    /\ NoNameOverride
    /\ baseResourceName = <<"b","a","t","c","h","l","i","n","e","-","o","r","b","i","a","-","t","e","s","t">>
    /\ resources.storageAccountName =
         <<"b","a","t","c","h","l","i","n","e","o","r","b","i","a","t","e","s","t">>


(***************************************************************************)
(* C2, C6: main, the join of the five fetchers                             *)
(***************************************************************************)

Resolved(k) == fetchers[k].promise = "fulfilled"

Rejected(k) == fetchers[k].promise = "rejected"

\* C2: generateDocument is invoked only once all five fetchers have
\* resolved; in a run where a fetcher rejects it is never invoked, and the
\* process then exits with code 1
C2_GenerateAfterAllResolved ==
    /\ [](docInvoked => \A k \in Kinds : Resolved(k))
    /\ []((\E k \in Kinds : Rejected(k)) => ~docInvoked)
    /\ []((mainPc = "exited" /\ \E k \in Kinds : Rejected(k)) => exitCode = 1)
    /\ (\E k \in Kinds : Rejected(k)) ~> (mainPc = "exited" /\ exitCode = 1 /\ ~docInvoked)

\* C2 witness: the alert fetcher rejects after its four siblings resolved,
\* and the process exits with code 1 without generateDocument
C2_Witness ==
    /\ mainPc = "exited"
    /\ exitCode = 1
    /\ ~docInvoked
    /\ Rejected("alert")
    /\ \A k \in Kinds \ {"alert"} : Resolved(k)

\* C6 as claimed: when the run ends on a fetcher's failure, every sibling
\* none of whose calls failed has run to completion and written its file
C6_SiblingsRunToCompletion ==
    (mainPc = "exited" /\ \E k \in Kinds : Rejected(k)) =>
        \A j \in Kinds : ~fetchers[j].threw => (Resolved(j) /\ files[j] = "new")

(***************************************************************************)
(* C3, C4, C5: one fetcher, failing calls                                  *)
(***************************************************************************)

\* the positions of the calls that have thrown
FailedCalls == { i \in 1..Len(results) : results[i].status = "failed" }

\* the calls of the fetcher's primary block, by name
PrimaryCallNames ==
    { "appServicePlans.get", "webApps.get", "webApps.getConfiguration",
      "databases.get", "servers.get", "transparentDataEncryptions.get",
      "backupShortTermRetentionPolicies.get", "redis.get",
      "storageAccounts.getProperties", "metricAlerts.listBySubscription" }

\* C3: when a primary call throws, the fetcher rejects with that error and
\* writes nothing: its output file is as the earlier run left it; and a
\* fetcher that has not resolved has not touched its file
C3_PrimaryFailureRejectsWithoutWrite ==
    /\ \A i \in FailedCalls :
          Calls(fetcher)[i].name \in PrimaryCallNames =>
              /\ fetchState = "rejected"
              /\ thrown = Calls(fetcher)[i].name
              /\ outputFile = previousFile
    /\ fetchState \in { "start", "running", "rejected" } => outputFile = previousFile

\* C3 witness: a primary call after the first throws while an earlier
\* run's file exists
C3_Witness ==
    /\ fetchState = "rejected"
    /\ previousFile.exists
    /\ outputFile = previousFile
    /\ \E i \in FailedCalls : i > 1 /\ thrown = Calls(fetcher)[i].name

\* every call of an inner try/catch threw or was not issued
AllOptionalFailed ==
    /\ Len(results) = Len(Calls(fetcher))
    /\ \A i \in 1..Len(results) :
          IF Calls(fetcher)[i].name \in PrimaryCallNames
          THEN Ok(results[i]) ELSE results[i].status \in { "failed", "skipped" }

\* the values of the records with the given title
ValuesOf(content, title) ==
    { content[i].value : i \in { j \in 1..Len(content) : content[j].title = <<title>> } }

\* C4: when the primary calls succeed and every optional call fails, the
\* storage, redis and web server fetchers still resolve and write the
\* complete list of records (16, 15 and 20), the records that depend on
\* optional data holding their defaults
C4_AllOptionalFailDefaults ==
    (fetcher \in { "storage", "redis", "web-server" }
       /\ fetchState \in { "resolved", "rejected" } /\ AllOptionalFailed) =>
        /\ fetchState = "resolved"
        /\ outputFile.exists
        /\ Len(outputFile.content) =
             (CASE fetcher = "storage" -> 16 [] fetcher = "redis" -> 15 [] OTHER -> 20)
        /\ \A i \in 1..Len(outputFile.content) : outputFile.content[i].value # <<>>
        /\ ValuesOf(outputFile.content, "Diagnostic settings") = { <<"Disabled">> }
        /\ ValuesOf(outputFile.content, "Destination details") = { <<"-">> }
        /\ fetcher # "redis" =>
             ValuesOf(outputFile.content, "Microsoft Defender for Cloud") = { <<"Disabled">> }
        /\ fetcher = "storage" =>
             ValuesOf(outputFile.content, "Change access level") = { <<"Private">> }
        /\ fetcher = "web-server" =>
             /\ ValuesOf(outputFile.content, "Backup schedule") = { <<"-">> }
             /\ ValuesOf(outputFile.content, "Data backup")
                  = { <<"Daily, Retention ", "-", " Days">> }
             /\ ValuesOf(outputFile.content, "Application Logs") = { <<"-">> }
             /\ ValuesOf(outputFile.content, "Web server logging") = { <<"Off">> }

\* C4 witness: the web server fetcher resolved with its first autoscale
\* listing, and every other optional call, failed
C4_Witness ==
    /\ fetcher = "web-server"
    /\ fetchState = "resolved"
    /\ AllOptionalFailed
    /\ Cardinality(warnings) = 5
    /\ outputFile.exists
    /\ outputFile # previousFile

\* C5 as claimed: the web app's backup-configuration read and the SQL
\* database's backup short-term retention policy read are recoverable: when
\* one throws, a warning is logged and the fetcher does not reject
C5_BackupReadRecoverable ==
    \A i \in FailedCalls :
        Calls(fetcher)[i].name \in { "webApps.getBackupConfiguration",
                                     "backupShortTermRetentionPolicies.get" } =>
            /\ Calls(fetcher)[i].name \in warnings
            /\ fetchState # "rejected"

(***************************************************************************)
(* C8, C9: the records of the alert fetcher                                *)
(***************************************************************************)

\* the alert records of the written file, the configuration summary apart
AlertRecords ==
    IF fetcher = "alert" /\ fetchState = "resolved"
    THEN SelectSeq(outputFile.content, LAMBDA rec : rec.from # 0)
    ELSE <<>>

Listing == ResultOf("alert", results, "metricAlerts.listBySubscription").v

References(alert, resourceId) ==
    \E s \in 1..Len(alert.scopes) : includes(alert.scopes[s], resourceId)

\* C8 as claimed: every alert record comes from a metric alert that passes
\* the environment filter and has a scope on the web app, the database or
\* the Redis cache
C8_RecordsOnlyForTheThreeResources ==
    \A n \in 1..Len(AlertRecords) :
        LET alert == Listing[AlertRecords[n].from] IN
        /\ isAlertForEnvironment(alert.name, targetEnvironmentOf(inputs))
        /\ \/ References(alert, WebAppId)
           \/ References(alert, DatabaseId)
           \/ References(alert, RedisId)

\* C9 as claimed: no metric alert of the listing appears in two records
C9_OneRecordPerAlert ==
    \A m, n \in 1..Len(AlertRecords) :
        AlertRecords[m].from = AlertRecords[n].from => m = n

(***************************************************************************)
(* C11, C12: overrides of resource names and resource groups               *)
(***************************************************************************)

\* the field of the returned object each name override variable feeds
NameFieldOf(key) ==
    CASE key = "resource_group_name" -> "resourceGroupName"
      [] key = "web_app_name" -> "webAppName"
      [] key = "app_service_plan_name" -> "legacyPlanName"
      [] key = "sql_server_name" -> "sqlServerName"
      [] key = "sql_database_name" -> "sqlDatabaseName"
      [] key = "redis_cache_name" -> "redisCacheName"
      [] key = "storage_account_name" -> "storageAccountName"

\* the name each field holds without its override
DefaultNameOf(key) ==
    CASE key \in { "resource_group_name", "sql_server_name", "redis_cache_name" } ->
           baseResourceName
      [] key \in { "web_app_name", "app_service_plan_name", "sql_database_name" } ->
           baseResourceName \o s_legacy
      [] key = "storage_account_name" -> WithoutHyphens(baseResourceName)

\* an override is present when its variable holds a non-empty string
Present(key) == processEnv[key] # Undefined /\ processEnv[key] # <<>>

\* C11: each of the seven names is its override, unchanged, when the
\* override is present, and its default otherwise (an override set to the
\* empty string counts as absent), so that an override never changes
\* another name
C11_OverrideVerbatim ==
    namePc = "done" =>
        \A key \in NameOverrideKeys :
            resources[NameFieldOf(key)] =
                IF Present(key) THEN processEnv[key] ELSE DefaultNameOf(key)

\* C11 witness: the storage account override, with capitals and hyphens,
\* is returned as given
C11_Witness ==
    /\ namePc = "done"
    /\ processEnv["storage_account_name"] = <<"M","y","-","R","-","x">>
    /\ resources.storageAccountName = <<"M","y","-","R","-","x">>
    /\ resources.webAppName = baseResourceName \o s_legacy

\* the variable holding the resource-group override of each resource type
GroupKeyOf(resourceType) ==
    CASE resourceType = "webapp" -> "web_app_resource_group"
      [] resourceType = "plan" -> "app_service_plan_resource_group"
      [] resourceType = "sql" -> "sql_server_resource_group"
      [] resourceType = "redis" -> "redis_cache_resource_group"
      [] resourceType = "storage" -> "storage_account_resource_group"

\* C12: getResourceGroup returns the type's own resource-group override
\* when one is present and the primary resource group of getResourceNames
\* otherwise, whatever the overrides of the other types are
C12_ResourceGroupOverride ==
    \A resourceType \in DOMAIN resourceGroup :
        resourceGroup[resourceType] =
            IF Present(GroupKeyOf(resourceType))
            THEN processEnv[GroupKeyOf(resourceType)]
            ELSE resources.resourceGroupName

\* C12 witness: with the web app's resource group overridden, the web app
\* resolves to the override and the plan to the primary resource group
C12_Witness ==
    /\ DOMAIN resourceGroup = ResourceTypes
    /\ Present("web_app_resource_group")
    /\ resourceGroup["webapp"] = processEnv["web_app_resource_group"]
    /\ resourceGroup["plan"] = resources.resourceGroupName
    /\ resourceGroup["plan"] # resourceGroup["webapp"]

(***************************************************************************)
(* C13: auto-discovery loads the '-data.json' files in filename order      *)
(***************************************************************************)

DocReturned == docPc \notin { "idle", "call" }

\* the names in the output directory that end in '-data.json'
DataFileNames ==
    { outputDir[i].name : i \in { j \in 1..Len(outputDir) : IsDataFile(outputDir[j].name) } }

\* those of them whose text is JSON
ReadableDataFileNames ==
    { outputDir[i].name : i \in { j \in 1..Len(outputDir) :
        /\ IsDataFile(outputDir[j].name)
        /\ outputDir[j].content \in { "[]", "[r1]" } } }

\* the file name without its '-data.json' ending
StemOf(filename) == SubSeq(filename, 1, Len(filename) - Len(s_ddatajson))

\* title is the stem with every hyphen turned into a space and the first
\* letter of every hyphen-separated word in upper case, then ' Specification'
IsTitleCased(title, stem) ==
    /\ Len(title) = Len(stem) + Len(s_Specification)
    /\ SubSeq(title, Len(stem) + 1, Len(title)) = s_Specification
    /\ \A p \in 1..Len(stem) :
        title[p] = IF stem[p] = "-" THEN " "
                   ELSE IF (p = 1 \/ stem[p - 1] = "-") /\ stem[p] \in DOMAIN UpperOf
                        THEN UpperOf[stem[p]]
                   ELSE stem[p]

Loadable(section) ==
    /\ section.enabled
    /\ \E i \in 1..Len(outputDir) :
          /\ outputDirExists
          /\ outputDir[i].name = section.filename
          /\ outputDir[i].content \in { "[]", "[r1]" }

\* the enabled descriptors whose file is absent
AbsentSections ==
    { i \in 1..Len(documentSections) :
        /\ documentSections[i].enabled
        /\ ~(outputDirExists /\ \E k \in 1..Len(outputDir) :
                outputDir[k].name = documentSections[i].filename) }

\* the records a file holds
RecordsIn(filename) ==
    LET text == outputDir[CHOOSE i \in 1..Len(outputDir) : outputDir[i].name = filename].content
    IN  IF text = "[r1]" THEN <<"r1">> ELSE <<>>

\* C14: in manual mode loadDataFiles walks CONFIG.documentSections in
\* configured order, skips the disabled entries, warns about and skips the
\* entries whose file is absent, and attaches to every remaining entry the
\* parsed records with the title and the sectionNumber of its descriptor.
C14_ManualModeAttachesDescriptor ==
    (DocReturned /\ ~useAutoDiscovery) =>
        LET remaining == SelectSeq(documentSections, Loadable) IN
        /\ Len(loadedData) = Len(remaining)
        /\ \A i \in 1..Len(remaining) :
              /\ loadedData[i].filename = remaining[i].filename
              /\ loadedData[i].title = remaining[i].title
              /\ loadedData[i].sectionNumber = remaining[i].sectionNumber
              /\ loadedData[i].data = RecordsIn(remaining[i].filename)
        /\ \A i \in AbsentSections :
              \E w \in 1..Len(docWarnings) :
                  docWarnings[w] = Warn("File not found", documentSections[i].filename)

(***************************************************************************)
(* C15: no loaded document, no artifact                                    *)
(***************************************************************************)

\* C15: when loadDataFiles returns no document (output directory missing,
\* no matching file, every section disabled or every file absent),
\* generateDocument warns that no data files were found, returns without
\* throwing and never writes the document artifact.
C15_EmptySetWarnsAndWritesNothing ==
    (DocReturned /\ Len(loadedData) = 0) =>
        /\ docPc = "returned"
        /\ docWarnings # <<>>
        /\ docWarnings[Len(docWarnings)] = Warn("No data files found", <<>>)
        /\ artifact \in { NoArtifact, PreviousArtifact }

\* manual mode with one disabled section and one enabled section whose file
\* is absent: generateDocument has returned and the earlier artifact stands
C15_Witness ==
    /\ docPc = "returned"
    /\ ~useAutoDiscovery
    /\ Len(documentSections) = 2
    /\ ~documentSections[1].enabled
    /\ documentSections[2].enabled
    /\ 2 \in AbsentSections
    /\ loadedData = <<>>
    /\ artifact = PreviousArtifact

(***************************************************************************)
(* C16: ensureFirewallAccess inserts only after finding no rule            *)
(***************************************************************************)

\* run second was started after run first had returned
InSequence(first, second) ==
    /\ first # second
    /\ ensure[second].pc = "done"
    /\ first \in ensure[second].after

AccessRuleExists ==
    \E rule \in serverRules :
        rule.startIpAddress = CurrentIP /\ rule.endIpAddress = CurrentIP

\* C17: under every interleaving of two runs of ensureFirewallAccess from
\* the same IP no run throws, and once both have finished (the subscription
\* ID being set and the address lookups and inserts having succeeded) a
\* rule allowing that IP exists, also when both runs listed the rules
\* before either inserted and each inserted its own rule.
C17_ConcurrentRunsTolerated ==
    /\ \A r \in Runs : ensure[r].pc # "threw"
    /\ ( /\ subscriptionId
         /\ \A r \in Runs :
               /\ ensure[r].pc = "done"
               /\ ensure[r].failed \cap { "getCurrentPublicIP", "createOrUpdate" } = {} )
       => AccessRuleExists

\* both runs listed the rules before either inserted, and each inserted a
\* rule of its own: the server holds two rules for the address
C17_Witness ==
    /\ \A r \in Runs :
          /\ ensure[r].pc = "done"
          /\ ensure[r].created
          /\ ~ensure[r].existed
          /\ ensure[r].failed = {}
    /\ ensure[1].ruleName # ensure[2].ruleName
    /\ Cardinality({ rule \in serverRules :
          rule.startIpAddress = CurrentIP /\ rule.endIpAddress = CurrentIP }) = 2

(***************************************************************************)
(* C18: cleanup deletes only auto-generated rules older than one hour      *)
(***************************************************************************)

\* the name is 'AutoRule-CAT-' followed by anything
HasAutoRulePrefix(name) ==
    /\ Len(name) >= 3
    /\ name[1].num = -1 /\ name[1].text = "AutoRule"
    /\ name[2].num = -1 /\ name[2].text = "CAT"

\* the name carries a creation time after the prefix; a name that ends
\* right after the prefix counts as created at time 0
HasCreationTime(name) == name[3].num >= 0 \/ name[3] = Word("")

CreationTimeOf(name) == IF name[3].num >= 0 THEN name[3].num ELSE 0

C19_NoSubscriptionRejectsBeforeAnyCall ==
    (~subscriptionId /\ fetchState # "start") =>
        /\ fetchState = "rejected"
        /\ thrown = "azure_subscription_id is not set"
        /\ step = 0
        /\ results = <<>>
        /\ outputFile = previousFile

\* the alert fetcher was called without a subscription ID and has rejected;
\* no output file exists
C19_Witness ==
    /\ ~subscriptionId
    /\ fetcher = "alert"
    /\ fetchState = "rejected"
    /\ thrown # ""
    /\ ~outputFile.exists

(***************************************************************************)
(* C20: getSkuDetails                                                      *)
(***************************************************************************)

Known(name, family, capacity, memory, connections) ==
    [name |-> name, family |-> family, capacity |-> capacity,
     memory |-> memory, connections |-> connections]

\* the sizes and connection limits of the Basic, Standard and Premium tiers
KnownSkus ==
    { Known("Basic", "C", 0, "250 MB", "Up to 256"),
      Known("Basic", "C", 1, "1 GB", "Up to 1,000"),
      Known("Basic", "C", 2, "2.5 GB", "Up to 2,000"),
      Known("Basic", "C", 3, "6 GB", "Up to 5,000"),
      Known("Basic", "C", 4, "13 GB", "Up to 10,000"),
      Known("Basic", "C", 5, "26 GB", "Up to 15,000"),
      Known("Basic", "C", 6, "53 GB", "Up to 20,000"),
      Known("Standard", "C", 0, "250 MB", "Up to 256"),
      Known("Standard", "C", 1, "1 GB", "Up to 1,000"),
      Known("Standard", "C", 2, "2.5 GB", "Up to 2,000"),
      Known("Standard", "C", 3, "6 GB", "Up to 5,000"),
      Known("Standard", "C", 4, "13 GB", "Up to 10,000"),
      Known("Standard", "C", 5, "26 GB", "Up to 15,000"),
      Known("Standard", "C", 6, "53 GB", "Up to 20,000"),
      Known("Premium", "P", 1, "6 GB", "Up to 7,500"),
      Known("Premium", "P", 2, "13 GB", "Up to 15,000"),
      Known("Premium", "P", 3, "26 GB", "Up to 30,000"),
      Known("Premium", "P", 4, "53 GB", "Up to 40,000"),
      Known("Premium", "P", 5, "120 GB", "Up to 40,000") }

\* name, family and capacity are all there
SkuPresent ==
    /\ ~sku.name.undefined /\ sku.name.value # ""
    /\ ~sku.family.undefined /\ sku.family.value # ""
    /\ ~sku.capacity.undefined

SkuMatches(known) ==
    /\ known.name = sku.name.value
    /\ known.family = sku.family.value
    /\ known.capacity = sku.capacity.value

\* C20: for every known (family, name, capacity) of the Basic, Standard
\* and Premium tiers getSkuDetails returns the tabulated memory size and
\* connection limit; for every other combination with all three fields
\* present it returns the memory '{name} {family}{capacity}' and the
\* connections '-'.
C20_SkuDetails ==
    (skuPc = "done" /\ SkuPresent) =>
        /\ \A known \in KnownSkus :
              SkuMatches(known) =>
                  /\ skuDetails.memory = << known.memory >>
                  /\ skuDetails.connections = known.connections
        /\ (~\E known \in KnownSkus : SkuMatches(known)) =>
              /\ skuDetails.memory =
                    << sku.name.value, " ", sku.family.value, ToString(sku.capacity.value) >>
              /\ skuDetails.connections = "-"

\* a Basic C0 cache: 250 MB and up to 256 connections
C20_Witness ==
    /\ skuPc = "done"
    /\ sku = [name |-> Str("Basic"), family |-> Str("C"), capacity |-> Num(0)]
    /\ skuDetails = SkuDetails(<<"250 MB">>, "Up to 256")

(***************************************************************************)
(* C21  getStorageSLA                                                      *)
(***************************************************************************)

SlaDone == slaPc = "done"

\* the SKU argument carries a name
SkuGiven == ~storage.sku.undefined /\ Len(storage.sku.value) > 0

\* the SKU names the storage fetcher knows (the cases of getReplicationDetails)
KnownStorageSkus ==
    { s_Standard \o <<"_">> \o r : r \in {s_LRS, s_GRS, s_RAGRS, s_ZRS, s_GZRS, s_RAGZRS} }

\* the decision table, by access tier
SlaOfTier ==
    IF storage.accessTier = Str("Hot") THEN "99.9%"
    ELSE IF storage.accessTier = Str("Cool") THEN "99.0%"
    ELSE "99.5% - 99.9%"

\* C21 as stated: a known (SKU, access tier) pair gets the percentage of the
\* decision table, and every SKU name that is not a known one gets '-',
\* whatever the access tier.
C21_UnrecognisedSkuYieldsDash ==
    SlaDone =>
        IF SkuGiven /\ storage.sku.value \in KnownStorageSkus
        THEN slaValue = SlaOfTier
        ELSE slaValue = "-"

\* C21 (amended): getStorageSLA returns '-' exactly when no SKU name is given
\* (undefined or empty), for any access tier; every SKU name that is given,
\* known or not, gets the percentage of the decision table: '99.9%' for Hot,
\* '99.0%' for Cool, '99.5% - 99.9%' for any other access tier.
C21_StorageSLA ==
    SlaDone => slaValue = IF SkuGiven THEN SlaOfTier ELSE "-"

C21_Witness ==
    /\ SlaDone
    /\ SkuGiven /\ storage.sku.value \notin KnownStorageSkus
    /\ storage.accessTier = Str("Cool")
    /\ slaValue = "99.0%"

(***************************************************************************)
(* C22  diagnostic settings and their destination                          *)
(***************************************************************************)

DiagnosticFetchers == { "web-server", "database", "redis", "storage" }

\* the outcome of the fetcher's diagnosticSettings.list call
DiagnosticLookup == results[IndexOfCall(fetcher, "diagnosticSettings.list")]

\* at least one diagnostic setting was fetched
SomeSetting == Ok(DiagnosticLookup) /\ Len(DiagnosticLookup.v) > 0

FirstSetting == DiagnosticLookup.v[1]

\* the literal a fetcher reports for existing diagnostic settings
EnabledLiteral ==
    IF fetcher \in { "web-server", "database" } THEN <<"Enabled">> ELSE <<"Enable all logs">>

\* the destination labels, the workspace label in the fetcher's spelling
WorkspaceLabel ==
    IF fetcher \in { "web-server", "database" } THEN "Log Analytics Workspace: "
    ELSE "Log analytics workspace: "

DefenderFetchers == { "web-server", "database", "storage" }

\* the outcome of the fetcher's pricings.get call
PricingLookup == results[IndexOfCall(fetcher, "pricings.get")]

\* the tiers that count as enabled: 'Standard', and 'Free' for the web
\* server (compute) fetcher only
EnabledTier(tier) == tier = "Standard" \/ (fetcher = "web-server" /\ tier = "Free")

\* C23: the Defender record of the web server, database and storage
\* fetchers is 'Enabled' exactly when the fetched pricing tier is 'Standard'
\* (or 'Free', in the web server fetcher only) and 'Disabled' for every
\* other tier and when the pricing lookup fails; no other literal appears.
C23_DefenderStatus ==
    (fetcher \in DefenderFetchers /\ fetchState = "resolved") =>
        ValuesOf(outputFile.content, "Microsoft Defender for Cloud") =
            { IF Ok(PricingLookup) /\ EnabledTier(PricingLookup.v)
              THEN <<"Enabled">> ELSE <<"Disabled">> }

(***************************************************************************)
(* C24  section numbers of the generated document                          *)
(***************************************************************************)

\* the modular generateDocument has written the artifact
ModularArtifactWritten == loader = "data-loader" /\ artifact.state = "written"

\* the k-th loaded document is numbered 3.k and the trailing client
\* specification carries a number none of them carries
SequentialAndUnique(entries) ==
    /\ Len(entries) = Len(loadedData) + 1
    /\ \A k \in 1..Len(loadedData) : entries[k].sectionNumber = <<3, k>>
    /\ entries[Len(entries)].title = t_Client_Specification_Requirements
    /\ \A k \in 1..Len(loadedData) :
          entries[k].sectionNumber # entries[Len(entries)].sectionNumber

\* C24: in the generated document the k-th loaded Specification Document is
\* numbered 3.k and the trailing client specification heading, and its
\* table-of-contents entry, carries a number no loaded document carries, in
\* both loading modes, also when configured sections are disabled, absent
\* or unparseable.
C24_SectionNumbersSequentialAndUnique ==
    ModularArtifactWritten =>
        /\ SequentialAndUnique(artifact.headings)
        /\ SequentialAndUnique(artifact.contents)

(***************************************************************************)
(* C25  ensureFirewallAccess never throws                                  *)
(***************************************************************************)

\* connect has gone past its await of ensureFirewallAccess
PastEnsure(r) == operation[r].pc \notin { "idle", "call", "ensuring" }

\* C25: ensureFirewallAccess never rejects, whether the public IP could not
\* be determined, the rules could not be listed, the rule could not be
\* created or the subscription ID is missing; and a connect that has gone
\* past it has attempted the database connection.
C25_EnsureNeverThrowsConnectProceeds ==
    \A r \in Runs :
        /\ ensure[r].pc # "threw"
        /\ PastEnsure(r) => operation[r].connectAttempted

\* C25 witness: one connect attempted the connection after the public IP
\* could not be determined, the other after both the listing and the
\* creation of the rule failed
C25_Witness ==
    /\ subscriptionId
    /\ ensure[1].failed = { "getCurrentPublicIP" }
    /\ ensure[2].failed = { "listByServer", "createOrUpdate" }
    /\ \A r \in Runs : operation[r].connectAttempted /\ operation[r].pc = "connected"

(***************************************************************************)
(* C26  cleanup after ensureFirewallAccess                                 *)
(***************************************************************************)

\* ensureFirewallAccess completed without error, having found or created a
\* rule for the current address
EnsuredAccess ==
    /\ ensure[1].pc = "done"
    /\ ensure[1].failed = {}
    /\ ensure[1].existingRule \/ ensure[1].created

\* a rule whose range is the current address alone
AllowsCurrentIP(rule) == rule.startIpAddress = CurrentIP /\ rule.endIpAddress = CurrentIP

\* C26: after ensureFirewallAccess has completed without error and
\* cleanupOldFirewallRules has then run, a firewall rule allowing the current
\* public IP still exists, also when ensureFirewallAccess reused an existing
\* rule instead of creating one.
C26_CleanupKeepsTheRuleInUse ==
    (EnsuredAccess /\ cleanup.pc = "done") =>
        \E rule \in serverRules : AllowsCurrentIP(rule)

(***************************************************************************)
(* C27  overlapping operations on the dbManager singleton                  *)
(***************************************************************************)

\* the operation has connected and not yet finished its query
BetweenConnectAndQueryEnd(r) == operation[r].pc \in { "connected", "querying" }

Open(p) == p # 0 /\ poolObjects[p] = "open"

\* C27: when two operations on the dbManager singleton overlap, no
\* operation's disconnect closes or clears the pool while the other has
\* connected and not yet finished its query: every such operation finds
\* this.pool set and open, and its query runs against an open pool.
C27_NoDisconnectUnderARunningOperation ==
    \A r \in Runs :
        /\ BetweenConnectAndQueryEnd(r) => Open(pool)
        /\ operation[r].pc = "querying" => Open(operation[r].queryPool)

(***************************************************************************)
(* C28  disconnect in the finally block                                    *)
(***************************************************************************)

\* the step is the resolution of this.pool.close() in operation r
ClosedWithoutError(r) ==
    /\ operation[r].pc = "closing"
    /\ operation'[r].pc = "settled"
    /\ poolObjects'[operation[r].closing] = "closed"

\* the step is a call of executeQuery by operation r
ExecuteQueryCalled(r) == operation[r].pc = "connected" /\ operation'[r].pc # "connected"

\* C28: every call of fetchAndSaveDefaultConfiguration or
\* queryConfigurationByPattern has called disconnect when it returns or
\* rejects, whether connect, the query or the file write failed or all
\* succeeded; when the pool closes without error the manager holds no pool
\* afterwards; and while the manager holds no pool executeQuery rejects with
\* 'Database connection not established' without issuing a query.
C28_DisconnectAlwaysAndNoQueryWithoutPool ==
    /\ [](\A r \in Runs : operation[r].pc = "settled" => operation[r].disconnectCalled)
    /\ [][\A r \in Runs :
            /\ ClosedWithoutError(r) => pool' = 0
            /\ (ExecuteQueryCalled(r) /\ pool = 0) =>
                  /\ operation'[r].error = NotEstablished
                  /\ operation'[r].queryPool = 0
                  /\ operation'[r].pc = "settled"]_vars

\* C28 witness: one operation's file write failed, its disconnect closed the
\* pool, and the other operation's executeQuery was then refused
C28_Witness ==
    /\ operation[1].pc = "settled" /\ operation[1].error = "writeFileSync"
    /\ operation[1].disconnectCalled
    /\ pool = 0 /\ poolObjects = <<"closed">>
    /\ operation[2].pc = "settled" /\ operation[2].error = NotEstablished
    /\ operation[2].disconnectCalled /\ operation[2].queryPool = 0

(***************************************************************************)
(* C29  success is reported only for a written artifact                    *)
(***************************************************************************)

\* main has logged 'Process completed successfully!', or
\* regenerateDocumentOnly 'Document regenerated: ...'
SuccessReported == mainPc \in { "completed", "regenerated" }

\* C29: main reports 'Process completed successfully' and
\* regenerateDocumentOnly reports 'Document regenerated' only after the
\* document artifact has been written to the configured output path; a
\* failure while packing or writing is never accompanied by a success
\* report.
C29_SuccessOnlyAfterArtifactWritten ==
    SuccessReported => (docPc = "written" /\ artifact.state = "written")

(***************************************************************************)
(* C30: the environment label of the alert records                         *)
(***************************************************************************)

\* the label addAlertsToData puts in front of the alert's name
LabelOf(rec) == rec.title[1]

\* C30 as claimed: in a run whose target environment is test no alert record
\* is labelled 'Production', and in a run whose target environment is prod
\* no alert record is labelled 'Test'
C30_LabelAgreesWithTargetEnvironment ==
    \A n \in 1..Len(AlertRecords) :
        /\ targetEnvironmentOf(inputs) = "test" => LabelOf(AlertRecords[n]) # "Production"
        /\ targetEnvironmentOf(inputs) = "prod" => LabelOf(AlertRecords[n]) # "Test"
====
